---- MODULE Spec2Model ----
(***************************************************************************)
(* Verification model of the deanfi-collectors repository.                 *)
(*                                                                         *)
(* The repository is a set of independent batch scripts.  The model holds  *)
(* one component per group of functions, each with its own variables and   *)
(* its own specification:                                                  *)
(*                                                                         *)
(*   SpecUpsert  the date-keyed upsert and trim list routines              *)
(*   SpecNews    runs of dailynews/update_news_lookback.py main()          *)
(*   SpecTicker  shared/ticker_utils.py and ticker_metadata.py lookups     *)
(*   SpecFetch   etffundflows fetch_aum_nav_with_fallbacks within one run  *)
(*   SpecAgg     etffundflows aggregate_points                             *)
(*   SpecMetric  derived metrics of the ETF and volume collectors          *)
(*   SpecCalc    percentile rank, moving average and growth calculators    *)
(*   SpecRun     a collector's main(): universe check, entity loop, save   *)
(*   SpecMonth   the ETF collector's month documents across runs           *)
(*   SpecConc    two interleaved runs of the ETF collector on one file     *)
(*   SpecDedupe  shared/ticker_utils.py dedupe_company_tickers             *)
(*   SpecPrev    etffundflows get_prev_point                               *)
(*   SpecRef     the support/resistance collector's reference bar          *)
(*   SpecGrade   shared/economy_compute.py calculate_grade, calculate_trend*)
(*   SpecWhale   stockwhales find_optimal_threshold                        *)
(*   SpecLimiter stockwhales RateLimiter.wait_if_needed                    *)
(*   SpecCons    the ETF collector's per-ticker and aggregate month files  *)
(*   SpecReq     AlpacaBarsClient._request and fetch_daily_bars            *)
(*   SpecGrow    growthoutput export_growth_output_json, one indicator     *)
(*   SpecYoy     sp100growth extract_company_data year-over-year maps      *)
(*                                                                         *)
(* Conventions.  A date string is an integer: 0 is the empty string "",    *)
(* 1..MaxDate are ISO dates (lexicographic order of ISO dates is their     *)
(* chronological order), NoDate is a row without the date key.  A Python   *)
(* str is a sequence of one-character strings.  Python None is the         *)
(* string "None" where a string or a record is expected.  An Optional      *)
(* number is a sequence: <<>> is None and <<v>> is the number v, so that   *)
(* None and 0 are different values.                                        *)
(***************************************************************************)
EXTENDS Integers, Sequences, FiniteSets, TLC

VARIABLES
    \* ---- SpecUpsert: one call of a list routine and one re-application
    u_pc,        \* "ready" | "applied" | "reapplied" | "trimmed" | "off"
    u_fn,        \* which routine was called
    u_history,   \* the list passed in
    u_entry,     \* the entry passed in (upserts)
    u_n,         \* the n passed in (trim)
    u_out,       \* the list returned
    u_out2,      \* the list returned by calling again on u_out with u_entry
    \* ---- SpecNews: the two lookback files and the ET calendar
    n_files,     \* [top, sector] -> [exists, data, lookback_days]: the stored document
    n_today,     \* ET date of the latest run (0 before the first run)
    n_runs,      \* number of runs so far
    n_last,      \* inputs of the latest run: [lookback_days, top, sector]
    \* ---- SpecTicker: one call of a ticker routine on one input
    t_pc,        \* "ready" | "called" | "again" | "variant" | "called_list" | "looked_up" | "off"
    t_fn,        \* which routine was called
    t_in,        \* the ticker passed in (a str, or NoneTicker)
    t_out,       \* what the routine returned
    t_again,     \* what it returned when called on its own result
    t_variant,   \* another spelling of t_in (case, outer whitespace, separator)
    t_vout,      \* what the routine returned for t_variant
    t_mapping,   \* keys of the metadata mapping (get_ticker_metadata)
    \* ---- SpecFetch: the AUM/NAV fetches of one run of the ETF collector
    f_cfg,          \* [source_order, alpha_key, max_calls, tickers]: the run's setup
    f_pc,           \* "main" | "loop" | "returned" | "saved" | "off"
    f_ticker,       \* number of the ticker being fetched (0 before the first)
    f_i,            \* position in source_order of the for loop
    f_warnings,     \* the call's warnings list
    f_result,       \* what the call returned: [aum, nav, updated_at, source, warnings]
    f_call_counts,  \* call_counts["alphavantage"]
    f_cap_applied,  \* cap_applied["alphavantage"]
    f_metadata,     \* what main() stores in the month document's metadata
    f_visits,       \* history: the sources the call has gone through, in order
    f_requests,     \* history: Alpha Vantage HTTP requests issued in the run
    \* ---- SpecAgg: one call of aggregate_points
    a_pc,        \* "ready" | "done" | "off"
    a_points,    \* the points passed in
    a_out,       \* the "daily" list returned
    \* ---- SpecMetric: one derived-metrics computation (ETF point or volume row)
    m_pc,          \* "ready" | "point" | "row" | "off"
    m_in,          \* inputs of the ETF loop body: aum, nav, close_t and the prior point
    m_point,       \* the derived fields of the point the loop body builds
    m_stocks,      \* one session of the volume frame: per stock, close change and volume
    m_row,         \* the row build_volume_metrics_series appends for the session
    \* ---- SpecCalc: one call of a series calculator
    c_pc,          \* "ready" | "percentile" | "sma" | "sma_other" | "yoy" | "cagr" | "change" | "off"
    c_series,      \* the series or list of values passed in
    c_x,           \* the scalar passed in: current_value, or start_val
    c_y,           \* end_val of calculate_cagr
    c_k,           \* window, years or num_periods
    c_out,         \* the Optional number returned
    c_list,        \* the entries of the dict returned, in key order
    c_series2,     \* another list with the same last c_k values (simple_moving_average)
    c_out2,        \* what simple_moving_average returned for c_series2
    \* ---- SpecRun: one run of a collector main() with its per-entity loop
    r_collector,   \* which collector script runs
    r_entities,    \* size of the resolved universe
    r_pc,          \* "start" | "loop" | "exited" | "off"
    r_outcomes,    \* per entity gone through, in order: "ok" | "caught" | "raised"
    r_written,     \* whether the output file was written
    r_exit,        \* the exit code of the process: <<>> while running, else <<code>>
    \* ---- SpecMonth: the per-ticker month documents of the ETF collector across runs
    e_files,       \* month key -> [exists, data]: the stored month documents
    e_prev,        \* e_files as it was before the latest run
    e_last,        \* the latest run: [ran, date, universe, val]
    \* ---- SpecConc: two runs of the ETF collector on one month file, interleaved
    k_init,        \* the month document before both runs
    k_file,        \* the month document on disk
    k_proc,        \* run -> [pc, date, universe, val, snapshot]: pc is "start" | "read" | "done" | "off"
    k_log,         \* history: the reads and writes in the order they happened
    \* ---- SpecDedupe: one call of dedupe_company_tickers
    d_pc,          \* "ready" | "done" | "off"
    d_tickers,     \* the list of tickers passed in
    d_out,         \* the list returned
    \* ---- SpecPrev: one call of get_prev_point
    p_pc,          \* "ready" | "done" | "off"
    p_cur,         \* current_month_doc
    p_prevdoc,     \* prev_month_doc (does not exist: None)
    p_ticker,      \* the ticker passed in
    p_session,     \* session_date
    p_out,         \* what the call returned: <<>> is None, <<p>> the point p
    \* ---- SpecRef: the support/resistance collector's loop body for one ticker
    s_pc,          \* "ready" | "done" | "off"
    s_today,       \* datetime.now(timezone.utc).date()
    s_bars,        \* ticker_bars: the bars fetched for the ticker, ascending by t
    s_out,         \* [status, ref, closes]: the error or the reference bar and SMA closes used
    \* ---- SpecGrade: one call of calculate_grade or calculate_trend
    g_pc,          \* "ready" | "graded" | "mirrored" | "trend" | "off"
    g_p,           \* percentile, in hundredths of a point
    g_interp,      \* interpretation
    g_out,         \* the dict calculate_grade returned
    g_mirror,      \* calculate_grade(100 - percentile, "higher_is_better")
    g_cur,         \* current (an Optional number: NaN is <<>>)
    g_previous,    \* previous
    g_trend,       \* what calculate_trend returned
    \* ---- SpecWhale: one call of find_optimal_threshold
    w_pc,          \* "ready" | "done" | "off"
    w_trades,      \* trades
    w_tiers,       \* tiers, from lowest to highest threshold
    w_limits,      \* [target_max, hard_max, multiplier]
    w_out,         \* [tier, trades]: the tuple returned
    \* ---- SpecLimiter: wait_if_needed calls on one stockwhales RateLimiter
    l_max,         \* max_per_minute
    l_clock,       \* time.time(), in ticks
    l_pc,          \* "idle" | "entered" | "sleeping" | "off": where the current call is
    l_times,       \* request_times
    l_wake,        \* when time.sleep(wait_time) ends
    l_hist,        \* history: every request time recorded, in order
    \* ---- SpecCons: the ETF collector's per-ticker and aggregate month files across runs
    x_files,       \* month key -> the per-ticker month document
    x_agg,         \* month key -> data.daily of the asset_class aggregate month file
    x_last,        \* history: session date -> the tickers of the latest run for that date
    \* ---- SpecReq: fetch_daily_bars and the _request calls of its loop
    q_pc,          \* "loop" | "requesting" | "returned" | "raised" | "done" | "off"
    q_pages,       \* pages fetched so far
    q_token,       \* page_token: whether the last payload had a next_page_token
    q_codes,       \* history: the answers to the HTTP attempts of the current _request call
    q_result,      \* what the _request call returned or raised: "" while none
    \* ---- SpecGrow: export_growth_output_json: the loop body for one indicator
    o_pc,          \* "ready" | "done" | "off"
    o_series,      \* the indicator value column, oldest first, in thousandths (NaN is <<>>)
    o_interp,      \* indicator.interpretation
    o_entry,       \* current.indicators[series_id]: [emitted, value, percentile, grade]
    \* ---- SpecYoy: extract_company_data: the annual year-over-year maps
    y_pc,          \* "ready" | "done" | "off"
    y_annual,      \* annual_data, newest first: [fiscal_year_end, revenue]
    y_out          \* revenue_yoy after relabel_yoy: year -> growth

uvars == <<u_pc, u_fn, u_history, u_entry, u_n, u_out, u_out2>>
nvars == <<n_files, n_today, n_runs, n_last>>
tvars == <<t_pc, t_fn, t_in, t_out, t_again, t_variant, t_vout, t_mapping>>
fvars == <<f_cfg, f_pc, f_ticker, f_i, f_warnings, f_result, f_call_counts,
           f_cap_applied, f_metadata, f_visits, f_requests>>
avars == <<a_pc, a_points, a_out>>
mvars == <<m_pc, m_in, m_point, m_stocks, m_row>>
cvars == <<c_pc, c_series, c_x, c_y, c_k, c_out, c_list, c_series2, c_out2>>
rvars == <<r_collector, r_entities, r_pc, r_outcomes, r_written, r_exit>>
evars == <<e_files, e_prev, e_last>>
kvars == <<k_init, k_file, k_proc, k_log>>
dvars == <<d_pc, d_tickers, d_out>>
pvars == <<p_pc, p_cur, p_prevdoc, p_ticker, p_session, p_out>>
svars == <<s_pc, s_today, s_bars, s_out>>
gvars == <<g_pc, g_p, g_interp, g_out, g_mirror, g_cur, g_previous, g_trend>>
wvars == <<w_pc, w_trades, w_tiers, w_limits, w_out>>
lvars == <<l_max, l_clock, l_pc, l_times, l_wake, l_hist>>
xvars == <<x_files, x_agg, x_last>>
qvars == <<q_pc, q_pages, q_token, q_codes, q_result>>
ovars == <<o_pc, o_series, o_interp, o_entry>>
yvars == <<y_pc, y_annual, y_out>>
vars == <<uvars, nvars, tvars, fvars, avars, mvars, cvars, rvars, evars, kvars, dvars, pvars, svars, gvars, wvars, lvars, xvars, qvars, ovars, yvars>>

\* what the actions of one component leave alone
not_uvars == <<nvars, tvars, fvars, avars, mvars, cvars, rvars, evars, kvars, dvars, pvars, svars, gvars, wvars, lvars, xvars, qvars, ovars, yvars>>
not_nvars == <<uvars, tvars, fvars, avars, mvars, cvars, rvars, evars, kvars, dvars, pvars, svars, gvars, wvars, lvars, xvars, qvars, ovars, yvars>>
not_tvars == <<uvars, nvars, fvars, avars, mvars, cvars, rvars, evars, kvars, dvars, pvars, svars, gvars, wvars, lvars, xvars, qvars, ovars, yvars>>
not_fvars == <<uvars, nvars, tvars, avars, mvars, cvars, rvars, evars, kvars, dvars, pvars, svars, gvars, wvars, lvars, xvars, qvars, ovars, yvars>>
not_avars == <<uvars, nvars, tvars, fvars, mvars, cvars, rvars, evars, kvars, dvars, pvars, svars, gvars, wvars, lvars, xvars, qvars, ovars, yvars>>
not_mvars == <<uvars, nvars, tvars, fvars, avars, cvars, rvars, evars, kvars, dvars, pvars, svars, gvars, wvars, lvars, xvars, qvars, ovars, yvars>>
not_cvars == <<uvars, nvars, tvars, fvars, avars, mvars, rvars, evars, kvars, dvars, pvars, svars, gvars, wvars, lvars, xvars, qvars, ovars, yvars>>
not_rvars == <<uvars, nvars, tvars, fvars, avars, mvars, cvars, evars, kvars, dvars, pvars, svars, gvars, wvars, lvars, xvars, qvars, ovars, yvars>>
not_evars == <<uvars, nvars, tvars, fvars, avars, mvars, cvars, rvars, kvars, dvars, pvars, svars, gvars, wvars, lvars, xvars, qvars, ovars, yvars>>
not_kvars == <<uvars, nvars, tvars, fvars, avars, mvars, cvars, rvars, evars, dvars, pvars, svars, gvars, wvars, lvars, xvars, qvars, ovars, yvars>>
not_dvars == <<uvars, nvars, tvars, fvars, avars, mvars, cvars, rvars, evars, kvars, pvars, svars, gvars, wvars, lvars, xvars, qvars, ovars, yvars>>
not_pvars == <<uvars, nvars, tvars, fvars, avars, mvars, cvars, rvars, evars, kvars, dvars, svars, gvars, wvars, lvars, xvars, qvars, ovars, yvars>>
not_svars == <<uvars, nvars, tvars, fvars, avars, mvars, cvars, rvars, evars, kvars, dvars, pvars, gvars, wvars, lvars, xvars, qvars, ovars, yvars>>
not_gvars == <<uvars, nvars, tvars, fvars, avars, mvars, cvars, rvars, evars, kvars, dvars, pvars, svars, wvars, lvars, xvars, qvars, ovars, yvars>>
not_wvars == <<uvars, nvars, tvars, fvars, avars, mvars, cvars, rvars, evars, kvars, dvars, pvars, svars, gvars, lvars, xvars, qvars, ovars, yvars>>
not_lvars == <<uvars, nvars, tvars, fvars, avars, mvars, cvars, rvars, evars, kvars, dvars, pvars, svars, gvars, wvars, xvars, qvars, ovars, yvars>>
not_xvars == <<uvars, nvars, tvars, fvars, avars, mvars, cvars, rvars, evars, kvars, dvars, pvars, svars, gvars, wvars, lvars, qvars, ovars, yvars>>
not_qvars == <<uvars, nvars, tvars, fvars, avars, mvars, cvars, rvars, evars, kvars, dvars, pvars, svars, gvars, wvars, lvars, xvars, ovars, yvars>>
not_ovars == <<uvars, nvars, tvars, fvars, avars, mvars, cvars, rvars, evars, kvars, dvars, pvars, svars, gvars, wvars, lvars, xvars, qvars, yvars>>
not_yvars == <<uvars, nvars, tvars, fvars, avars, mvars, cvars, rvars, evars, kvars, dvars, pvars, svars, gvars, wvars, lvars, xvars, qvars, ovars>>

-----------------------------------------------------------------------------
(* Bounds of the model *)

MaxLen == 3        \* longest input list of the list routines
MaxDate == 3       \* ISO dates are 1..MaxDate
MaxRuns == 4       \* runs of the lookback updater that are followed
MaxTickerLen == 3  \* longest ticker spelled from TickerChars
MaxSources == 2    \* longest aum_nav.source_order
MaxCalls == 2      \* largest api.alphavantage.max_calls_per_run
MaxTickers == 2    \* largest ticker universe of a run
MaxPoints == 2     \* longest list of points passed to aggregate_points
MaxStocks == 2     \* largest universe of a volume session
MaxSeries == 3     \* longest series passed to a calculator
MaxEntities == 3   \* largest universe of a collector run
MaxUniverse == 3   \* longest list passed to dedupe_company_tickers
MaxTrades == 3      \* longest list of trades passed to find_optimal_threshold
MaxPerMinute == 2   \* largest max_per_minute of the rate limiter
MaxTime == 9        \* last tick of the clock
MaxRequests == 4    \* wait_if_needed calls that are followed
MaxDepth == 5       \* nested _request frames the interpreter allows (its recursion limit)
MaxPages == 4       \* pages the server supplies a next_page_token for
MaxFiscalYears == 2 \* calendar years the fiscal_year_end dates lie in

DaysPerMonth == 2   \* session dates of one calendar month
NoDate == -1
Vals == {"a", "b"}                       \* payloads of a row
StrDates == 0 .. MaxDate                 \* "" and the ISO dates
IsoDates == 1 .. MaxDate
Rows == [date : StrDates, val : Vals]    \* rows whose date key is a str
Entries == [date : {NoDate} \cup StrDates, val : Vals]

RECURSIVE SeqsUpTo(_, _)
SeqsUpTo(S, n) ==
    IF n = 0 THEN {<<>>}
    ELSE LET shorter == SeqsUpTo(S, n - 1)
         IN  shorter \cup {Append(s, x) : s \in {t \in shorter : Len(t) = n - 1}, x \in S}

-----------------------------------------------------------------------------
(* Python list primitives *)

\* A list comprehension [x for x in s if keep(x)] is SelectSeq(s, keep).

\* x.get("date", ""): the sort key of a row; a missing key sorts as ""
DateKey(p) == IF p.date = NoDate THEN 0 ELSE p.date

\* list.sort(key=DateKey) is stable: equal keys keep their relative order.
RECURSIVE InsertByDate(_, _)
InsertByDate(s, x) ==
    IF s = <<>> THEN <<x>>
    ELSE IF DateKey(s[Len(s)]) <= DateKey(x) THEN Append(s, x)
    ELSE Append(InsertByDate(SubSeq(s, 1, Len(s) - 1), x), s[Len(s)])

RECURSIVE SortByDate(_)
SortByDate(s) ==
    IF s = <<>> THEN <<>>
    ELSE InsertByDate(SortByDate(SubSeq(s, 1, Len(s) - 1)), s[Len(s)])

-----------------------------------------------------------------------------
(* The list routines *)

\* faulty variant: the list is not re-sorted after the append
upsert_daily_point_nosort(daily, point) ==
    LET target_date == point.date
    IN  Append(SelectSeq(daily, LAMBDA p : p.date /= target_date), point)

upsert_daily_point(daily, point) ==
    LET target_date == point.date
        kept == SelectSeq(daily, LAMBDA p : p.date /= target_date)
    IN  SortByDate(Append(kept, point))

\* faulty variant: the row of the same date is not removed before the append
upsert_by_market_date_keepdup(history, entry) ==
    LET md == entry.date
    IN  IF md = NoDate \/ md = 0 THEN history
        ELSE SortByDate(Append(history, entry))

upsert_by_market_date(history, entry) ==
    LET md == entry.date
    IN  IF md = NoDate \/ md = 0 THEN history
        ELSE SortByDate(Append(SelectSeq(history, LAMBDA row : row.date /= md), entry))

upsert_agg_daily(daily, date_str, groups) ==
    LET kept == SelectSeq(daily, LAMBDA p : p.date /= date_str)
    IN  SortByDate(Append(kept, [date |-> date_str, val |-> groups]))

\* sorted(set of int-coded strings): ascending, no repeats
RECURSIVE Sorted(_)
Sorted(S) ==
    IF S = {} THEN <<>>
    ELSE LET m == CHOOSE x \in S : \A y \in S : x <= y
         IN  <<m>> \o Sorted(S \ {m})

\* s[-n:] for n > 0: the last n elements, all of s when n >= len(s)
LastSlice(s, n) == SubSeq(s, IF Len(s) - n < 0 THEN 1 ELSE Len(s) - n + 1, Len(s))

\* s[:n] for n > 0
FirstSlice(s, n) == SubSeq(s, 1, IF n > Len(s) THEN Len(s) ELSE n)

SetOf(s) == {s[i] : i \in DOMAIN s}

\* faulty variant: the slice keeps the oldest n dates, unique_dates[:n]
trim_to_last_n_dates_first(history, n) ==
    IF n <= 0 THEN <<>>
    ELSE LET unique_dates == Sorted({history[i].date : i \in DOMAIN history} \ {NoDate})
             keep == SetOf(FirstSlice(unique_dates, n))
         IN  SelectSeq(history, LAMBDA row : row.date \in keep)

trim_to_last_n_dates(history, n) ==
    IF n <= 0 THEN <<>>
    ELSE LET unique_dates == Sorted({history[i].date : i \in DOMAIN history} \ {NoDate})
             keep == SetOf(LastSlice(unique_dates, n))
         IN  SelectSeq(history, LAMBDA row : row.date \in keep)

-----------------------------------------------------------------------------
(* SpecUpsert: a routine is called once on an arbitrary stored list, and an *)
(* upsert is then called again with the same entry on what it returned.    *)

Histories == SeqsUpTo(Rows, MaxLen)

UpsertIdle ==
    /\ u_pc = "off" /\ u_fn = "none" /\ u_history = <<>>
    /\ u_entry = [date |-> NoDate, val |-> "a"] /\ u_n = 0
    /\ u_out = <<>> /\ u_out2 = <<>>

UpsertInit ==
    /\ u_pc = "ready" /\ u_fn = "none"
    /\ u_history \in Histories
    /\ u_entry = [date |-> NoDate, val |-> "a"] /\ u_n = 0
    /\ u_out = <<>> /\ u_out2 = <<>>

ApplyUpsert(fn, h, e) ==
    CASE fn = "upsert_daily_point" -> upsert_daily_point(h, e)
      [] fn = "upsert_by_market_date" -> upsert_by_market_date(h, e)
      [] fn = "upsert_agg_daily" -> upsert_agg_daily(h, e.date, e.val)

CallUpsertDailyPoint ==
    /\ u_pc = "ready"
    /\ \E e \in Entries :
        /\ u_entry' = e
        /\ u_out' = upsert_daily_point(u_history, e)
    /\ u_fn' = "upsert_daily_point" /\ u_pc' = "applied"
    /\ UNCHANGED <<u_history, u_n, u_out2>>
    /\ UNCHANGED not_uvars

CallUpsertByMarketDate ==
    /\ u_pc = "ready"
    /\ \E e \in Entries :
        /\ u_entry' = e
        /\ u_out' = upsert_by_market_date(u_history, e)
    /\ u_fn' = "upsert_by_market_date" /\ u_pc' = "applied"
    /\ UNCHANGED <<u_history, u_n, u_out2>>
    /\ UNCHANGED not_uvars

\* date_str is always a str (session_dt.isoformat() at the only call site)
CallUpsertAggDaily ==
    /\ u_pc = "ready"
    /\ \E e \in Rows :
        /\ u_entry' = e
        /\ u_out' = upsert_agg_daily(u_history, e.date, e.val)
    /\ u_fn' = "upsert_agg_daily" /\ u_pc' = "applied"
    /\ UNCHANGED <<u_history, u_n, u_out2>>
    /\ UNCHANGED not_uvars

CallUpsertAgain ==
    /\ u_pc = "applied"
    /\ u_out2' = ApplyUpsert(u_fn, u_out, u_entry)
    /\ u_pc' = "reapplied"
    /\ UNCHANGED <<u_fn, u_history, u_entry, u_n, u_out>>
    /\ UNCHANGED not_uvars

CallTrim ==
    /\ u_pc = "ready"
    /\ \E n \in -1 .. MaxLen + 1 :
        /\ u_n' = n
        /\ u_out' = trim_to_last_n_dates(u_history, n)
    /\ u_fn' = "trim_to_last_n_dates" /\ u_pc' = "trimmed"
    /\ UNCHANGED <<u_history, u_entry, u_out2>>
    /\ UNCHANGED not_uvars

UpsertNext ==
    \/ CallUpsertDailyPoint
    \/ CallUpsertByMarketDate
    \/ CallUpsertAggDaily
    \/ CallUpsertAgain
    \/ CallTrim

-----------------------------------------------------------------------------
(* SpecNews: runs of update_news_lookback.main().  Each run reads both      *)
(* lookback files, upserts the entry of the run's ET date, trims, writes.  *)

NewsFiles == {"top", "sector"}

\* a path that does not exist
AbsentFile == [exists |-> FALSE, data |-> <<>>, lookback_days |-> 0]

NewsIdle ==
    /\ n_files = [f \in NewsFiles |-> AbsentFile]
    /\ n_today = 0 /\ n_runs = 0
    /\ n_last = [lookback_days |-> 0, top |-> "a", sector |-> "a"]

NewsInit == NewsIdle

\* load_json: None (exists = FALSE) when the path does not exist
load_json(f) == n_files[f]

\* normalize_history: [] for None, else the rows of "data" with a str date
normalize_history(existing) ==
    IF ~existing.exists THEN <<>>
    ELSE SelectSeq(existing.data, LAMBDA row : row.date /= NoDate)

\* faulty variant: the upserted history is written without the trim
NewsDocument_notrim(f, et_today, payload, lookback_days) ==
    LET existing == normalize_history(load_json(f))
        entry == [date |-> et_today, val |-> payload]
    IN  [exists |-> TRUE, data |-> upsert_by_market_date(existing, entry),
         lookback_days |-> lookback_days]

\* the document main() writes for one file
NewsDocument(f, et_today, payload, lookback_days) ==
    LET existing == normalize_history(load_json(f))
        entry == [date |-> et_today, val |-> payload]
        history == trim_to_last_n_dates(upsert_by_market_date(existing, entry), lookback_days)
    IN  [exists |-> TRUE, data |-> history, lookback_days |-> lookback_days]

\* One run.  The ET date never goes back between runs.
NewsRun ==
    /\ n_runs < MaxRuns
    /\ \E d \in IsoDates, lookback_days \in -1 .. MaxDate, top \in Vals, sector \in Vals :
        /\ d >= n_today
        /\ n_today' = d
        /\ n_last' = [lookback_days |-> lookback_days, top |-> top, sector |-> sector]
        /\ n_files' = [f \in NewsFiles |->
                          NewsDocument(f, d, IF f = "top" THEN top ELSE sector, lookback_days)]
    /\ n_runs' = n_runs + 1
    /\ UNCHANGED not_nvars

NewsNext == NewsRun

-----------------------------------------------------------------------------
(* shared/ticker_utils.py and shared/ticker_metadata.py *)

LowerCase == <<"a", "b", "c", "d", "e", "f", "g", "h", "i", "j", "k", "l", "m",
               "n", "o", "p", "q", "r", "s", "t", "u", "v", "w", "x", "y", "z">>
UpperCase == <<"A", "B", "C", "D", "E", "F", "G", "H", "I", "J", "K", "L", "M",
               "N", "O", "P", "Q", "R", "S", "T", "U", "V", "W", "X", "Y", "Z">>

IsSpace(c) == c = " "

\* the argument None
NoneTicker == <<"None">>

\* str.upper() on one character
UpperChar(c) ==
    IF \E i \in DOMAIN LowerCase : LowerCase[i] = c
    THEN UpperCase[CHOOSE i \in DOMAIN LowerCase : LowerCase[i] = c]
    ELSE c

\* str.lower() on one character
LowerChar(c) ==
    IF \E i \in DOMAIN UpperCase : UpperCase[i] = c
    THEN LowerCase[CHOOSE i \in DOMAIN UpperCase : UpperCase[i] = c]
    ELSE c

Upper(t) == [i \in DOMAIN t |-> UpperChar(t[i])]

\* str.strip(): leading and trailing whitespace removed
RECURSIVE LStrip(_)
LStrip(t) == IF t /= <<>> /\ IsSpace(Head(t)) THEN LStrip(Tail(t)) ELSE t

RECURSIVE RStrip(_)
RStrip(t) ==
    IF t /= <<>> /\ IsSpace(t[Len(t)]) THEN RStrip(SubSeq(t, 1, Len(t) - 1)) ELSE t

Strip(t) == RStrip(LStrip(t))

\* t.replace(old, new) for one-character old and new
ReplaceChar(t, old, new) == [i \in DOMAIN t |-> IF t[i] = old THEN new ELSE t[i]]

\* "--" in t
HasDoubleDash(t) == \E i \in 1 .. Len(t) - 1 : t[i] = "-" /\ t[i + 1] = "-"

\* t.replace("--", "-"): one left-to-right pass over non-overlapping matches
RECURSIVE ReplaceDoubleDash(_)
ReplaceDoubleDash(t) ==
    IF Len(t) < 2 THEN t
    ELSE IF t[1] = "-" /\ t[2] = "-" THEN <<"-">> \o ReplaceDoubleDash(SubSeq(t, 3, Len(t)))
    ELSE <<t[1]>> \o ReplaceDoubleDash(Tail(t))

\* faulty variant: a single replace pass instead of the while loop
CollapseSeparators_once(t) == ReplaceDoubleDash(t)

\* while "--" in t: t = t.replace("--", "-")
RECURSIVE CollapseSeparators(_)
CollapseSeparators(t) ==
    IF HasDoubleDash(t) THEN CollapseSeparators(ReplaceDoubleDash(t)) ELSE t

\* faulty variant: only '.' is mapped to '-', '/' is left alone
normalize_ticker_noslash(ticker) ==
    IF ticker = NoneTicker THEN <<>>
    ELSE LET t == Upper(Strip(ticker))
         IN  IF t = <<>> THEN <<>>
             ELSE CollapseSeparators(ReplaceChar(t, ".", "-"))

normalize_ticker(ticker) ==
    IF ticker = NoneTicker THEN <<>>
    ELSE LET t == Upper(Strip(ticker))
         IN  IF t = <<>> THEN <<>>
             ELSE CollapseSeparators(ReplaceChar(ReplaceChar(t, ".", "-"), "/", "-"))

GOOG == <<"G", "O", "O", "G">>
GOOGL == <<"G", "O", "O", "G", "L">>
FOX == <<"F", "O", "X">>
FOXA == <<"F", "O", "X", "A">>
NWS == <<"N", "W", "S">>
NWSA == <<"N", "W", "S", "A">>

\* _ALTERNATE_TICKERS.get(primary, [])
AlternateTickers(primary) ==
    CASE primary = GOOG -> <<GOOGL>>
      [] primary = GOOGL -> <<GOOG>>
      [] primary = FOX -> <<FOXA>>
      [] primary = FOXA -> <<FOX>>
      [] primary = NWS -> <<NWSA>>
      [] primary = NWSA -> <<NWS>>
      [] OTHER -> <<>>

\* _COMPANY_CANONICAL.get(t, t)
CompanyCanonical(t) ==
    CASE t = GOOG \/ t = GOOGL -> GOOGL
      [] t = FOX \/ t = FOXA -> FOXA
      [] t = NWS \/ t = NWSA -> NWSA
      [] OTHER -> t

canonical_company_ticker(ticker) == CompanyCanonical(normalize_ticker(ticker))

\* candidates extended by the items of alts that are not yet in it, in order
RECURSIVE AppendNew(_, _)
AppendNew(candidates, alts) ==
    IF alts = <<>> THEN candidates
    ELSE AppendNew(IF \E i \in DOMAIN candidates : candidates[i] = Head(alts)
                   THEN candidates ELSE Append(candidates, Head(alts)),
                   Tail(alts))

\* index of the last "-" of t, 0 when there is none (rsplit("-", 1))
LastDash(t) ==
    IF \E i \in DOMAIN t : t[i] = "-"
    THEN CHOOSE i \in DOMAIN t : t[i] = "-" /\ \A j \in DOMAIN t : t[j] = "-" => j <= i
    ELSE 0

\* the share-class fallbacks of primary: base-A, base-B, base-C
ShareClassAlternates(primary) ==
    LET k == LastDash(primary)
        base == SubSeq(primary, 1, k - 1)
        suffix == SubSeq(primary, k + 1, Len(primary))
    IN  IF k > 0 /\ Len(suffix) = 1 /\ suffix[1] \in {"A", "B", "C"}
        THEN <<base \o <<"-", "A">>, base \o <<"-", "B">>, base \o <<"-", "C">>>>
        ELSE <<>>

\* faulty variant: alternates are appended without the "not in candidates" test
candidate_tickers_dups(ticker) ==
    LET primary == normalize_ticker(ticker)
    IN  IF primary = <<>> THEN <<>>
        ELSE <<primary>> \o ShareClassAlternates(primary) \o AlternateTickers(primary)

candidate_tickers(ticker) ==
    LET primary == normalize_ticker(ticker)
    IN  IF primary = <<>> THEN <<>>
        ELSE AppendNew(AppendNew(<<primary>>, ShareClassAlternates(primary)),
                       AlternateTickers(primary))

\* the TickerMetadata stored under a key, and the result None
Metadata(key) == [found |-> TRUE, symbol |-> key]
NoMetadata == [found |-> FALSE, symbol |-> <<>>]

\* the first candidate that is a key of the mapping, in list order
RECURSIVE FirstPresent(_, _)
FirstPresent(candidates, mapping) ==
    IF candidates = <<>> THEN NoMetadata
    ELSE IF Head(candidates) \in mapping THEN Metadata(Head(candidates))
    ELSE FirstPresent(Tail(candidates), mapping)

get_ticker_metadata(ticker, mapping) ==
    IF mapping = {} THEN NoMetadata
    ELSE FirstPresent(candidate_tickers(ticker), mapping)

-----------------------------------------------------------------------------
(* SpecTicker: one routine is called on one ticker; normalize_ticker and   *)
(* canonical_company_ticker are then called on their own result, or on     *)
(* another spelling of the same ticker.                                    *)

TickerChars == {" ", ".", "/", "-", "A", "B", "C", "X", "a"}

\* spellings of tickers the lookup tables and the module docstring name
NamedTickers ==
    {NoneTicker, GOOG, GOOGL, FOX, FOXA, NWS, NWSA,
     <<"g", "o", "o", "g">>, <<" ", "G", "o", "o", "g", "l", " ">>,
     <<"f", "o", "x">>, <<"n", "w", "s", "a">>,
     <<"b", "r", "k", ".", "b">>, <<"B", "R", "K", "/", "B">>, <<"B", "R", "K", "-", "B">>,
     <<"B", "F", "/", "B">>, <<"B", "R", "K", "/", "A">>}

TickerInputs == SeqsUpTo(TickerChars, MaxTickerLen) \cup NamedTickers

Separators == {".", "/", "-"}

\* the spellings that differ from t in the case of one letter, in whitespace
\* around it, or in the separator character used at one position
Variants(t) ==
    IF t = NoneTicker THEN {}
    ELSE {[t EXCEPT ![i] = UpperChar(t[i])] : i \in DOMAIN t}
         \cup {[t EXCEPT ![i] = LowerChar(t[i])] : i \in DOMAIN t}
         \cup {<<" ">> \o t, t \o <<" ">>, <<" ">> \o t \o <<" ">>}
         \cup {[t EXCEPT ![i] = c] : i \in {j \in DOMAIN t : t[j] \in Separators},
                                     c \in Separators}

\* keys a metadata CSV may hold: any of the candidates and an unrelated one
MappingKeys(t) == SetOf(candidate_tickers(t)) \cup {<<"Z">>}

TickerIdle ==
    /\ t_pc = "off" /\ t_fn = "none" /\ t_in = <<>> /\ t_out = <<>>
    /\ t_again = <<>> /\ t_variant = <<>> /\ t_vout = <<>> /\ t_mapping = {}

TickerInit ==
    /\ t_pc = "ready" /\ t_fn = "none" /\ t_in \in TickerInputs /\ t_out = <<>>
    /\ t_again = <<>> /\ t_variant = <<>> /\ t_vout = <<>> /\ t_mapping = {}

CallNormalizeTicker ==
    /\ t_pc = "ready"
    /\ t_out' = normalize_ticker(t_in)
    /\ t_fn' = "normalize_ticker" /\ t_pc' = "called"
    /\ UNCHANGED <<t_in, t_again, t_variant, t_vout, t_mapping>>
    /\ UNCHANGED not_tvars

CallCanonicalCompanyTicker ==
    /\ t_pc = "ready"
    /\ t_out' = canonical_company_ticker(t_in)
    /\ t_fn' = "canonical_company_ticker" /\ t_pc' = "called"
    /\ UNCHANGED <<t_in, t_again, t_variant, t_vout, t_mapping>>
    /\ UNCHANGED not_tvars

\* the routine is called on what it returned
CallTickerAgain ==
    /\ t_pc = "called"
    /\ t_again' = IF t_fn = "normalize_ticker" THEN normalize_ticker(t_out)
                  ELSE canonical_company_ticker(t_out)
    /\ t_pc' = "again"
    /\ UNCHANGED <<t_fn, t_in, t_out, t_variant, t_vout, t_mapping>>
    /\ UNCHANGED not_tvars

\* normalize_ticker is called on another spelling of the same ticker
CallNormalizeVariant ==
    /\ t_pc = "called" /\ t_fn = "normalize_ticker"
    /\ \E v \in Variants(t_in) :
        /\ t_variant' = v
        /\ t_vout' = normalize_ticker(v)
    /\ t_pc' = "variant"
    /\ UNCHANGED <<t_fn, t_in, t_out, t_again, t_mapping>>
    /\ UNCHANGED not_tvars

CallCandidateTickers ==
    /\ t_pc = "ready"
    /\ t_out' = candidate_tickers(t_in)
    /\ t_fn' = "candidate_tickers" /\ t_pc' = "called_list"
    /\ UNCHANGED <<t_in, t_again, t_variant, t_vout, t_mapping>>
    /\ UNCHANGED not_tvars

CallGetTickerMetadata ==
    /\ t_pc = "ready"
    /\ \E mapping \in SUBSET MappingKeys(t_in) :
        /\ t_mapping' = mapping
        /\ t_out' = get_ticker_metadata(t_in, mapping)
    /\ t_fn' = "get_ticker_metadata" /\ t_pc' = "looked_up"
    /\ UNCHANGED <<t_in, t_again, t_variant, t_vout>>
    /\ UNCHANGED not_tvars

TickerNext ==
    \/ CallNormalizeTicker
    \/ CallCanonicalCompanyTicker
    \/ CallTickerAgain
    \/ CallNormalizeVariant
    \/ CallCandidateTickers
    \/ CallGetTickerMetadata

-----------------------------------------------------------------------------
(* etffundflows: fetch_aum_nav_with_fallbacks, called once per ticker by   *)
(* main() with the run's call_counts and cap_applied.                      *)

\* entries of aum_nav.source_order as they may be spelled in config.yml
SourceNames == {"yfinance", "alphavantage", "AV", "fred"}

\* s = (source or "").strip().lower(), then the two membership tests
SourceKind(source) ==
    CASE source \in {"yf", "yahoo", "yfinance", "Yahoo", " yfinance "} -> "yfinance"
      [] source \in {"alphavantage", "alpha_vantage", "av", "AV", " av "} -> "alphavantage"
      [] OTHER -> "unknown"

None == "None"

\* what yfinance_etf_aum_nav can return as (aum, nav, updated_at): nothing
\* when the request raised or info has neither key, else what info holds
YfinanceReplies ==
    {[aum |-> None, nav |-> None, updated_at |-> None],
     [aum |-> "aum_yf", nav |-> None, updated_at |-> "t_yf"],
     [aum |-> None, nav |-> "nav_yf", updated_at |-> "t_yf"],
     [aum |-> "aum_yf", nav |-> "nav_yf", updated_at |-> None],
     [aum |-> "aum_yf", nav |-> "nav_yf", updated_at |-> "t_yf"]}

\* what the Alpha Vantage endpoint can answer
AlphaReplies == {"http_error", "rate_limited", "exception", "no_net_assets", "net_assets"}

\* alphavantage_etf_profile: None unless the answer is a 200 with a payload
\* that is no Information / Note / Error Message payload
alphavantage_etf_profile(reply) ==
    IF reply \in {"http_error", "rate_limited", "exception"} THEN None ELSE reply

\* safe_float(payload.get("net_assets"))
NetAssets(payload) == IF payload = "net_assets" THEN "aum_av" ELSE None

\* faulty variant: yfinance serves only when it has both values
YfinanceServes_both(aum, nav) == aum /= None /\ nav /= None

\* aum is not None or nav is not None
YfinanceServes(aum, nav) == aum /= None \/ nav /= None

\* faulty variant: the budget test lets one more request through
CapReached_after(count, max_calls) == count > max_calls

\* call_counts.get("alphavantage", 0) >= max_calls
CapReached(count, max_calls) == count >= max_calls

UnknownSourceTag(source) == "unknown_aum_nav_source:" \o source

NoResult == [aum |-> None, nav |-> None, updated_at |-> None, source |-> "pending",
             warnings |-> <<>>]

\* a history entry: the source gone through, whether an HTTP request went
\* to Alpha Vantage, what the source delivered, the tags appended for it,
\* and call_counts as it was when the source was reached
Visit(i, requested, aum, nav, tags) ==
    [idx |-> i, src |-> f_cfg.source_order[i], requested |-> requested,
     aum |-> aum, nav |-> nav, tags |-> tags, count_before |-> f_call_counts]

FetchConfigs ==
    [source_order : {o \in SeqsUpTo(SourceNames, MaxSources) : o /= <<>>},
     alpha_key : BOOLEAN,
     max_calls : -1 .. MaxCalls,
     tickers : 1 .. MaxTickers]

FetchIdle ==
    /\ f_cfg = [source_order |-> <<"yfinance">>, alpha_key |-> FALSE, max_calls |-> 0,
                tickers |-> 1]
    /\ f_pc = "off" /\ f_ticker = 0 /\ f_i = 0 /\ f_warnings = <<>>
    /\ f_result = NoResult /\ f_call_counts = 0 /\ f_cap_applied = FALSE
    /\ f_metadata = [written |-> FALSE, aum_nav_calls |-> 0, aum_nav_call_caps_applied |-> FALSE]
    /\ f_visits = <<>> /\ f_requests = 0

\* main() up to the ticker loop: the setup is read, the counters are fresh
FetchInit ==
    /\ f_cfg \in FetchConfigs
    /\ f_pc = "main" /\ f_ticker = 0 /\ f_i = 0 /\ f_warnings = <<>>
    /\ f_result = NoResult /\ f_call_counts = 0 /\ f_cap_applied = FALSE
    /\ f_metadata = [written |-> FALSE, aum_nav_calls |-> 0, aum_nav_call_caps_applied |-> FALSE]
    /\ f_visits = <<>> /\ f_requests = 0

InLoopAt(kind) ==
    /\ f_pc = "loop"
    /\ f_i <= Len(f_cfg.source_order)
    /\ SourceKind(f_cfg.source_order[f_i]) = kind

\* main(): the next ticker's call starts; warnings = []
StartCall ==
    /\ f_pc \in {"main", "returned"}
    /\ f_ticker < f_cfg.tickers
    /\ f_ticker' = f_ticker + 1
    /\ f_pc' = "loop" /\ f_i' = 1 /\ f_warnings' = <<>> /\ f_visits' = <<>>
    /\ f_result' = NoResult
    /\ UNCHANGED <<f_cfg, f_call_counts, f_cap_applied, f_metadata, f_requests>>
    /\ UNCHANGED not_fvars

\* the yfinance branch of the loop body
VisitYfinance ==
    /\ InLoopAt("yfinance")
    /\ \E r \in YfinanceReplies :
        IF YfinanceServes(r.aum, r.nav)
        THEN /\ f_result' = [aum |-> r.aum, nav |-> r.nav, updated_at |-> r.updated_at,
                             source |-> "yfinance", warnings |-> f_warnings]
             /\ f_visits' = Append(f_visits, Visit(f_i, FALSE, r.aum, r.nav, <<>>))
             /\ f_pc' = "returned"
             /\ UNCHANGED <<f_i, f_warnings>>
        ELSE /\ f_warnings' = Append(f_warnings, "yfinance_missing_aum_and_nav")
             /\ f_visits' = Append(f_visits, Visit(f_i, FALSE, r.aum, r.nav,
                                                   <<"yfinance_missing_aum_and_nav">>))
             /\ f_i' = f_i + 1
             /\ UNCHANGED <<f_pc, f_result>>
    /\ UNCHANGED <<f_cfg, f_ticker, f_call_counts, f_cap_applied, f_metadata, f_requests>>
    /\ UNCHANGED not_fvars

\* the alphavantage branch when alpha_key is empty
VisitAlphaNoKey ==
    /\ InLoopAt("alphavantage")
    /\ ~f_cfg.alpha_key
    /\ f_warnings' = Append(f_warnings, "alphavantage_missing_api_key")
    /\ f_visits' = Append(f_visits, Visit(f_i, FALSE, None, None,
                                          <<"alphavantage_missing_api_key">>))
    /\ f_i' = f_i + 1
    /\ UNCHANGED <<f_cfg, f_pc, f_ticker, f_result, f_call_counts, f_cap_applied,
                   f_metadata, f_requests>>
    /\ UNCHANGED not_fvars

\* the alphavantage branch when the call budget is used up
VisitAlphaCapReached ==
    /\ InLoopAt("alphavantage")
    /\ f_cfg.alpha_key
    /\ CapReached(f_call_counts, f_cfg.max_calls)
    /\ f_cap_applied' = TRUE
    /\ f_warnings' = Append(f_warnings, "alphavantage_call_cap_reached")
    /\ f_visits' = Append(f_visits, Visit(f_i, FALSE, None, None,
                                          <<"alphavantage_call_cap_reached">>))
    /\ f_i' = f_i + 1
    /\ UNCHANGED <<f_cfg, f_pc, f_ticker, f_result, f_call_counts, f_metadata, f_requests>>
    /\ UNCHANGED not_fvars

\* the alphavantage branch when the request is made
VisitAlphaRequest ==
    /\ InLoopAt("alphavantage")
    /\ f_cfg.alpha_key
    /\ ~CapReached(f_call_counts, f_cfg.max_calls)
    /\ f_requests' = f_requests + 1
    /\ f_call_counts' = f_call_counts + 1
    /\ \E reply \in AlphaReplies :
        LET payload == alphavantage_etf_profile(reply)
            aum == NetAssets(payload)
        IN  /\ f_visits' = Append(f_visits, Visit(f_i, TRUE, aum, None, <<>>))
            /\ IF payload /= None /\ aum /= None
               THEN /\ f_result' = [aum |-> aum, nav |-> None, updated_at |-> "now",
                                    source |-> "alphavantage", warnings |-> f_warnings]
                    /\ f_pc' = "returned"
                    /\ UNCHANGED f_i
               ELSE /\ f_i' = f_i + 1
                    /\ UNCHANGED <<f_pc, f_result>>
    /\ UNCHANGED <<f_cfg, f_ticker, f_warnings, f_cap_applied, f_metadata>>
    /\ UNCHANGED not_fvars

\* a source name that is neither: warnings.append(f"unknown_aum_nav_source:{source}")
VisitUnknownSource ==
    /\ InLoopAt("unknown")
    /\ f_warnings' = Append(f_warnings, UnknownSourceTag(f_cfg.source_order[f_i]))
    /\ f_visits' = Append(f_visits, Visit(f_i, FALSE, None, None,
                                          <<UnknownSourceTag(f_cfg.source_order[f_i])>>))
    /\ f_i' = f_i + 1
    /\ UNCHANGED <<f_cfg, f_pc, f_ticker, f_result, f_call_counts, f_cap_applied,
                   f_metadata, f_requests>>
    /\ UNCHANGED not_fvars

\* the loop is over: return None, None, None, "none", warnings
ReturnNone ==
    /\ f_pc = "loop"
    /\ f_i > Len(f_cfg.source_order)
    /\ f_result' = [aum |-> None, nav |-> None, updated_at |-> None, source |-> "none",
                    warnings |-> f_warnings]
    /\ f_pc' = "returned"
    /\ UNCHANGED <<f_cfg, f_ticker, f_i, f_warnings, f_call_counts, f_cap_applied,
                   f_metadata, f_visits, f_requests>>
    /\ UNCHANGED not_fvars

\* main() after the last ticker: the counters go into the month document
SaveMetadata ==
    /\ f_pc = "returned"
    /\ f_ticker = f_cfg.tickers
    /\ f_metadata' = [written |-> TRUE, aum_nav_calls |-> f_call_counts,
                      aum_nav_call_caps_applied |-> f_cap_applied]
    /\ f_pc' = "saved"
    /\ UNCHANGED <<f_cfg, f_ticker, f_i, f_warnings, f_result, f_call_counts,
                   f_cap_applied, f_visits, f_requests>>
    /\ UNCHANGED not_fvars

FetchNext ==
    \/ StartCall
    \/ VisitYfinance
    \/ VisitAlphaNoKey
    \/ VisitAlphaCapReached
    \/ VisitAlphaRequest
    \/ VisitUnknownSource
    \/ ReturnNone
    \/ SaveMetadata

-----------------------------------------------------------------------------
(* Properties of the list routines (SpecUpsert) *)

\* number of positions of s holding a row of the set S
Count(s, S) == Cardinality({i \in DOMAIN s : s[i] \in S})

RowsOfDate(d) == {r \in Entries : r.date = d}

AscendingByDate(s) == \A i, j \in DOMAIN s : i < j => DateKey(s[i]) <= DateKey(s[j])

\* the row an upsert stores for u_entry
StoredRow == [date |-> u_entry.date, val |-> u_entry.val]

UpsertReturned == u_pc \in {"applied", "reapplied"}

\* C1: for every stored list and every new entry with a non-empty date key,
\* each of the three upserts returns a list (a) in which the new entry is the
\* only row of its date, (b) which holds every other row of the stored list
\* as often as the stored list does, and nothing else, and (c) which is in
\* ascending date order.
C1_UpsertContract ==
    (UpsertReturned /\ u_entry.date \in IsoDates) =>
        /\ Count(u_out, RowsOfDate(u_entry.date)) = 1
        /\ Count(u_out, {StoredRow}) = 1
        /\ \A r \in Rows : r.date /= u_entry.date =>
               Count(u_out, {r}) = Count(u_history, {r})
        /\ Len(u_out) = 1 + Count(u_history, Rows \ RowsOfDate(u_entry.date))
        /\ AscendingByDate(u_out)

\* C1 witness: upsert_daily_point replaced a stored row of the same date in a
\* list that also held a later and an earlier date, out of order
C1_Witness ==
    /\ u_pc = "applied" /\ u_fn = "upsert_daily_point"
    /\ u_history = <<[date |-> 3, val |-> "a"], [date |-> 2, val |-> "a"], [date |-> 1, val |-> "a"]>>
    /\ u_entry = [date |-> 2, val |-> "b"]
    /\ u_out = <<[date |-> 1, val |-> "a"], [date |-> 2, val |-> "b"], [date |-> 3, val |-> "a"]>>

\* C2: upsert_daily_point and upsert_by_market_date are idempotent: calling
\* the routine again with the same entry on the list it returned gives the
\* same list, in content and order.
C2_UpsertIdempotent ==
    (u_pc = "reapplied" /\ u_fn \in {"upsert_daily_point", "upsert_by_market_date"}) =>
        u_out2 = u_out

\* C2 witness: upsert_by_market_date was re-applied to a list that it had
\* changed (a row of the entry's date was replaced and the list re-sorted)
C2_Witness ==
    /\ u_pc = "reapplied" /\ u_fn = "upsert_by_market_date"
    /\ u_entry.date \in IsoDates
    /\ Count(u_history, RowsOfDate(u_entry.date)) = 2
    /\ Len(u_out) = 2 /\ u_out /= u_history
    /\ u_out2 = u_out

\* the distinct dates of the stored list that are among its n most recent
RecentDates(n) ==
    LET present == {u_history[i].date : i \in DOMAIN u_history}
    IN  {d \in present : Cardinality({e \in present : e > d}) < n}

\* C4: trim_to_last_n_dates(history, n) returns exactly the rows whose date
\* is among the n most recent distinct dates present, in their original
\* order; hence the empty list for n <= 0 and history itself when n is at
\* least the number of distinct dates.
C4_TrimContract ==
    u_pc = "trimmed" =>
        /\ u_out = SelectSeq(u_history, LAMBDA r : r.date \in RecentDates(u_n))
        /\ u_n <= 0 => u_out = <<>>
        /\ u_n >= Cardinality({u_history[i].date : i \in DOMAIN u_history}) =>
               u_out = u_history

\* C4 witness: three dates, n = 2, the oldest date is dropped
C4_Witness ==
    /\ u_pc = "trimmed" /\ u_n = 2
    /\ u_history = <<[date |-> 1, val |-> "a"], [date |-> 2, val |-> "a"], [date |-> 3, val |-> "a"]>>
    /\ u_out = <<[date |-> 2, val |-> "a"], [date |-> 3, val |-> "a"]>>

-----------------------------------------------------------------------------
(* Properties of the lookback updater (SpecNews) *)

StrictlyIncreasingDates(s) == \A i, j \in DOMAIN s : i < j => s[i].date < s[j].date

LatestPayload(f) == IF f = "top" THEN n_last.top ELSE n_last.sector

\* what every written lookback file satisfies whatever lookback_days is
NewsFileShape(f) ==
    LET data == n_files[f].data
    IN  /\ n_files[f].lookback_days = n_last.lookback_days
        /\ StrictlyIncreasingDates(data)
        /\ \A i \in DOMAIN data : data[i].date \in IsoDates
        /\ n_last.lookback_days >= 1 =>
               /\ data /= <<>>
               /\ data[Len(data)] = [date |-> n_today, val |-> LatestPayload(f)]

\* C3 as stated: after any sequence of runs from an absent file with
\* non-decreasing run dates, the written list has one entry per date in
\* strictly increasing order, at most lookback_days entries, and holds the
\* latest run's entry when lookback_days >= 1.
C3_AsStated ==
    \A f \in NewsFiles : n_files[f].exists =>
        /\ NewsFileShape(f)
        /\ Len(n_files[f].data) <= n_last.lookback_days

\* C3 amended: the same, with at most max(lookback_days, 0) entries (a run
\* with a negative lookback_days writes the empty list).
C3_LookbackInvariant ==
    \A f \in NewsFiles : n_files[f].exists =>
        /\ NewsFileShape(f)
        /\ Len(n_files[f].data) <=
               (IF n_last.lookback_days < 0 THEN 0 ELSE n_last.lookback_days)

\* C3 witness: the third run, on a third date with lookback_days = 2,
\* dropped the oldest date and kept two entries
C3_Witness ==
    /\ n_runs = 3 /\ n_today = 3 /\ n_last.lookback_days = 2
    /\ \A f \in NewsFiles :
        /\ n_files[f].exists
        /\ Len(n_files[f].data) = 2
        /\ n_files[f].data[1].date = 2

-----------------------------------------------------------------------------
(* Properties of the ticker routines (SpecTicker) *)

\* C5: normalize_ticker and canonical_company_ticker are idempotent: called
\* on its own result, each returns that result again, for every ticker
\* string, None and the empty string included.
C5_NormalizeIdempotent ==
    t_pc = "again" => t_again = t_out

\* C5 witness: normalize_ticker was re-applied to a result that needed more
\* than one pass of the separator collapse
C5_Witness ==
    /\ t_pc = "again" /\ t_fn = "normalize_ticker"
    /\ t_in = <<".", "/", "-">>
    /\ t_out = <<"-">> /\ t_again = <<"-">>

BRK_B == <<"B", "R", "K", "-", "B">>

\* no outer whitespace, no lowercase letter, no '.', no '/', no "--"
CanonicalForm(t) ==
    /\ t /= <<>> => ~IsSpace(t[1]) /\ ~IsSpace(t[Len(t)])
    /\ \A i \in DOMAIN t : t[i] \notin SetOf(LowerCase) \cup {".", "/"}
    /\ \A i \in 1 .. Len(t) - 1 : ~(t[i] = "-" /\ t[i + 1] = "-")

\* C6: the result of normalize_ticker is in canonical form, and spellings
\* that differ only in case, in surrounding whitespace or in the separator
\* character ('.', '/' or '-') normalize to the same value; 'brk.b', 'BRK/B'
\* and 'BRK-B' all give 'BRK-B'.
C6_NormalizeCanonical ==
    (t_fn = "normalize_ticker" /\ t_pc \in {"called", "again", "variant"}) =>
        /\ CanonicalForm(t_out)
        /\ t_pc = "variant" => t_vout = t_out
        /\ t_in \in {<<"b", "r", "k", ".", "b">>, <<"B", "R", "K", "/", "B">>, BRK_B} =>
               t_out = BRK_B

\* C6 witness: 'brk.b' and its spelling 'brk/b' both gave 'BRK-B'
C6_Witness ==
    /\ t_pc = "variant" /\ t_fn = "normalize_ticker"
    /\ t_in = <<"b", "r", "k", ".", "b">>
    /\ t_variant = <<"b", "r", "k", "/", "b">>
    /\ t_out = BRK_B /\ t_vout = BRK_B

\* the list the claim describes for a ticker whose normalized form is primary
ExpectedCandidates(primary) ==
    LET n == Len(primary)
        classed == n >= 2 /\ primary[n - 1] = "-" /\ primary[n] \in {"A", "B", "C"}
        base == SubSeq(primary, 1, n - 2)
        share == IF classed
                 THEN SelectSeq(<<base \o <<"-", "A">>, base \o <<"-", "B">>, base \o <<"-", "C">>>>,
                                LAMBDA x : x /= primary)
                 ELSE <<>>
        pairs == {<<GOOG, GOOGL>>, <<FOX, FOXA>>, <<NWS, NWSA>>}
        known == IF \E p \in pairs : primary \in {p[1], p[2]}
                 THEN LET p == CHOOSE q \in pairs : primary \in {q[1], q[2]}
                      IN  <<IF primary = p[1] THEN p[2] ELSE p[1]>>
                 ELSE <<>>
    IN  IF primary = <<>> THEN <<>> ELSE <<primary>> \o share \o known

DuplicateFree(s) == \A i, j \in DOMAIN s : s[i] = s[j] => i = j

\* C7: candidate_tickers returns the duplicate-free list: nothing when the
\* ticker normalizes to the empty string, else the normalized ticker, then
\* base-A, base-B, base-C without the primary when it ends in -A, -B or -C,
\* then the known alternate ticker of the primary; get_ticker_metadata
\* returns the metadata of the first candidate, in that order, that is a key
\* of the mapping, and None when none is.
C7_CandidateOrder ==
    LET expected == ExpectedCandidates(normalize_ticker(t_in))
        hits == {i \in DOMAIN expected : expected[i] \in t_mapping}
    IN  /\ t_pc = "called_list" => (t_out = expected /\ DuplicateFree(t_out))
        /\ t_pc = "looked_up" =>
               t_out = IF hits = {} THEN NoMetadata
                       ELSE Metadata(expected[CHOOSE i \in hits : \A j \in hits : i <= j])

\* C7 witness: 'brk.b' was looked up in a mapping that holds BRK-A and BRK-C
\* but not BRK-B, and the share-class fallback BRK-A was returned
C7_Witness ==
    /\ t_pc = "looked_up" /\ t_in = <<"b", "r", "k", ".", "b">>
    /\ t_mapping = {<<"B", "R", "K", "-", "A">>, <<"B", "R", "K", "-", "C">>}
    /\ t_out = Metadata(<<"B", "R", "K", "-", "A">>)

-----------------------------------------------------------------------------
(* Properties of the AUM/NAV fetch (SpecFetch) *)

\* the source of a visit yielded data: yfinance an AUM or a NAV, alphavantage
\* a net_assets value
Yielded(v) ==
    \/ SourceKind(v.src) = "yfinance" /\ (v.aum /= None \/ v.nav /= None)
    \/ SourceKind(v.src) = "alphavantage" /\ v.aum /= None

RECURSIVE TagsOf(_)
TagsOf(visits) == IF visits = <<>> THEN <<>> ELSE Head(visits).tags \o TagsOf(Tail(visits))

SourceKinds == [i \in DOMAIN f_cfg.source_order |-> SourceKind(f_cfg.source_order[i])]

\* C8: a returned call went through the sources strictly in the order of
\* source_order and stopped at the first one that yielded data; it returns
\* that source's values and name with the tags of the sources before it,
\* and source 'none' with all-null values exactly when no source yielded
\* data.  With order [yfinance, alphavantage], yfinance without data and
\* alphavantage with data, the result is sourced from alphavantage and
\* carries the warning yfinance_missing_aum_and_nav.
C8_FirstYieldingSource ==
    f_pc = "returned" =>
        LET k == Len(f_visits)
            served == k > 0 /\ Yielded(f_visits[k])
        IN  /\ k <= Len(f_cfg.source_order)
            /\ \A j \in 1 .. k : f_visits[j].idx = j /\ f_visits[j].src = f_cfg.source_order[j]
            /\ \A j \in 1 .. k - 1 : ~Yielded(f_visits[j])
            /\ served =>
                   /\ f_result.source = SourceKind(f_visits[k].src)
                   /\ f_result.aum = f_visits[k].aum
                   /\ f_result.nav = f_visits[k].nav
                   /\ f_result.warnings = TagsOf(SubSeq(f_visits, 1, k - 1))
            /\ ~served =>
                   /\ k = Len(f_cfg.source_order)
                   /\ f_result.aum = None /\ f_result.nav = None
                   /\ f_result.updated_at = None
                   /\ f_result.warnings = TagsOf(f_visits)
            /\ f_result.source = "none" <=> ~served
            /\ (SourceKinds = <<"yfinance", "alphavantage">> /\ k = 2 /\ served) =>
                   /\ f_result.source = "alphavantage"
                   /\ f_result.warnings = <<"yfinance_missing_aum_and_nav">>

\* C8 witness: order [yfinance, alphavantage], yfinance had neither value,
\* alphavantage served net_assets
C8_Witness ==
    /\ f_pc = "returned"
    /\ f_cfg.source_order = <<"yfinance", "alphavantage">>
    /\ Len(f_visits) = 2 /\ ~Yielded(f_visits[1]) /\ f_visits[2].requested
    /\ f_result = [aum |-> "aum_av", nav |-> None, updated_at |-> "now",
                   source |-> "alphavantage",
                   warnings |-> <<"yfinance_missing_aum_and_nav">>]

\* the sources a returned call passed over without returning their result
PassedOver ==
    LET k == Len(f_visits)
    IN  IF k > 0 /\ f_result.source /= "none" THEN SubSeq(f_visits, 1, k - 1) ELSE f_visits

\* C9: every source a returned call passed over (request failed, rate
\* limited, no usable data, no credentials, budget used up) has a warning
\* tag of its own in the returned warnings; so there are at least as many
\* tags as sources passed over.
C9_WarningPerPassedSource ==
    f_pc = "returned" =>
        /\ \A j \in DOMAIN PassedOver : PassedOver[j].tags /= <<>>
        /\ Len(f_result.warnings) >= Len(PassedOver)

\* the visits of the current call that reached alphavantage with the count
\* already at the budget
AlphaVisitsAtBudget ==
    {j \in DOMAIN f_visits :
        /\ SourceKind(f_visits[j].src) = "alphavantage"
        /\ f_visits[j].count_before >= f_cfg.max_calls}

CapTagged(j) ==
    /\ ~f_visits[j].requested
    /\ f_visits[j].tags = <<"alphavantage_call_cap_reached">>
    /\ f_cap_applied

\* what the month document reports is what the run counted
MetadataReportsCounters ==
    f_metadata.written =>
        /\ f_metadata.aum_nav_calls = f_requests
        /\ f_metadata.aum_nav_call_caps_applied = f_cap_applied

\* C10 as stated: in one run the Alpha Vantage requests never exceed
\* max_calls_per_run, every request is counted, and once the count has
\* reached the budget every later attempt against alphavantage issues no
\* request, appends alphavantage_call_cap_reached and sets cap_applied,
\* which never reverts to False.
C10_AsStated ==
    /\ [](/\ f_requests <= f_cfg.max_calls
          /\ f_call_counts = f_requests
          /\ MetadataReportsCounters
          /\ \A j \in AlphaVisitsAtBudget : CapTagged(j))
    /\ [][f_cap_applied => f_cap_applied']_vars

\* C10 amended: the requests never exceed max(max_calls_per_run, 0), every
\* request is counted, and once the count has reached the budget every
\* later attempt against alphavantage issues no request; with an API key
\* it appends alphavantage_call_cap_reached and sets cap_applied, without
\* one it appends alphavantage_missing_api_key; cap_applied never reverts.
C10_CallBudget ==
    /\ [](/\ f_requests <= (IF f_cfg.max_calls < 0 THEN 0 ELSE f_cfg.max_calls)
          /\ f_call_counts = f_requests
          /\ MetadataReportsCounters
          /\ \A j \in AlphaVisitsAtBudget :
                IF f_cfg.alpha_key THEN CapTagged(j)
                ELSE /\ ~f_visits[j].requested
                     /\ f_visits[j].tags = <<"alphavantage_missing_api_key">>)
    /\ [][f_cap_applied => f_cap_applied']_vars

\* C10 witness: with a budget of 2, the second ticker's call found both
\* requests spent by the first one and was turned away with the cap tag
C10_Witness ==
    /\ f_cfg.max_calls = 2 /\ f_cfg.alpha_key /\ f_requests = 2
    /\ f_ticker = 2 /\ f_pc = "returned" /\ f_cap_applied
    /\ f_visits /= <<>> /\ f_visits[1].count_before = 2
    /\ f_visits[1].tags = <<"alphavantage_call_cap_reached">>

-----------------------------------------------------------------------------
(* etffundflows: aggregate_points(points, key_name) *)

\* Optional[float]: None, and what "is not None" tests
NoneNum == <<>>
IsNum(v) == v /= NoneNum
NumOf(v) == v[1]

\* the dates a point may carry: no date key (None), "", and two ISO dates
AggDates == {NoDate, 0, 1, 2}

\* the labels a point may carry under key_name: None, "", and two names
AggLabels == {None, "", "Equity", "Unknown"}

\* the three numeric fields of a point, each a float or None
AggValues ==
    {[aum |-> NoneNum, flow_nav |-> NoneNum, flow_close |-> NoneNum],
     [aum |-> <<2>>, flow_nav |-> <<1>>, flow_close |-> NoneNum],
     [aum |-> <<3>>, flow_nav |-> <<-1>>, flow_close |-> <<0>>],
     [aum |-> <<0>>, flow_nav |-> NoneNum, flow_close |-> <<-1>>]}

AggPoints ==
    {[date |-> d, label |-> l, aum |-> v.aum, flow_nav |-> v.flow_nav,
      flow_close |-> v.flow_close] : d \in AggDates, l \in AggLabels, v \in AggValues}

\* the dict setdefault creates for a new (date, label)
NewAgg ==
    [aum |-> 0, flow_nav |-> 0, flow_close |-> 0, tickers |-> 0,
     tickers_with_aum |-> 0, tickers_with_flow_nav |-> 0, tickers_with_flow_close |-> 0]

\* d.setdefault(k, v): d itself when k is a key, else d with k -> v
SetDefault(d, k, v) ==
    IF k \in DOMAIN d THEN d ELSE [x \in DOMAIN d \cup {k} |-> IF x = k THEN v ELSE d[x]]

\* p.get(key_name) or "Unknown"
LabelOf(p) == IF p.label = None \/ p.label = "" THEN "Unknown" ELSE p.label

\* the three "if x is not None" updates of one loop pass, and tickers += 1
AddToAgg(agg, p) ==
    [aum |-> IF IsNum(p.aum) THEN agg.aum + NumOf(p.aum) ELSE agg.aum,
     tickers_with_aum |-> IF IsNum(p.aum) THEN agg.tickers_with_aum + 1
                          ELSE agg.tickers_with_aum,
     tickers |-> agg.tickers + 1,
     flow_nav |-> IF IsNum(p.flow_nav) THEN agg.flow_nav + NumOf(p.flow_nav)
                  ELSE agg.flow_nav,
     tickers_with_flow_nav |-> IF IsNum(p.flow_nav) THEN agg.tickers_with_flow_nav + 1
                               ELSE agg.tickers_with_flow_nav,
     flow_close |-> IF IsNum(p.flow_close) THEN agg.flow_close + NumOf(p.flow_close)
                    ELSE agg.flow_close,
     tickers_with_flow_close |-> IF IsNum(p.flow_close) THEN agg.tickers_with_flow_close + 1
                                 ELSE agg.tickers_with_flow_close]

\* one pass of "for p in points": by_date after the pass
AggregateOne(by_date, p) ==
    LET d == p.date
        label == LabelOf(p)
    IN  IF d = NoDate \/ d = 0 THEN by_date
        ELSE LET with_date == SetDefault(by_date, d, <<>>)
                 bucket == SetDefault(with_date[d], label, NewAgg)
             IN  [with_date EXCEPT ![d] = [bucket EXCEPT ![label] = AddToAgg(bucket[label], p)]]

RECURSIVE AggregateLoop(_, _)
AggregateLoop(by_date, points) ==
    IF points = <<>> THEN by_date
    ELSE AggregateLoop(AggregateOne(by_date, Head(points)), Tail(points))

\* faulty variant: a total without contributions stays 0.0
EmitTotals_zero(agg) ==
    [agg EXCEPT !.aum = <<agg.aum>>, !.flow_nav = <<agg.flow_nav>>,
                !.flow_close = <<agg.flow_close>>]

\* the second loop: a total without contributions becomes None
EmitTotals(agg) ==
    [agg EXCEPT !.aum = IF agg.tickers_with_aum = 0 THEN NoneNum ELSE <<agg.aum>>,
                !.flow_nav = IF agg.tickers_with_flow_nav = 0 THEN NoneNum
                             ELSE <<agg.flow_nav>>,
                !.flow_close = IF agg.tickers_with_flow_close = 0 THEN NoneNum
                               ELSE <<agg.flow_close>>]

\* aggregate_points(points, key_name)["daily"]
aggregate_points(points) ==
    LET by_date == AggregateLoop(<<>>, points)
        keys == Sorted(DOMAIN by_date)
    IN  [k \in DOMAIN keys |->
            [date |-> keys[k],
             groups |-> [l \in DOMAIN by_date[keys[k]] |-> EmitTotals(by_date[keys[k]][l])]]]

AggIdle == a_pc = "off" /\ a_points = <<>> /\ a_out = <<>>

AggInit == a_pc = "ready" /\ a_points \in SeqsUpTo(AggPoints, MaxPoints) /\ a_out = <<>>

CallAggregatePoints ==
    /\ a_pc = "ready"
    /\ a_out' = aggregate_points(a_points)
    /\ a_pc' = "done"
    /\ UNCHANGED a_points
    /\ UNCHANGED not_avars

AggNext == CallAggregatePoints

-----------------------------------------------------------------------------
(* Properties of aggregate_points (SpecAgg) *)

\* positions of the points of date d whose label counts as l
BucketOf(d, l) == {i \in DOMAIN a_points : a_points[i].date = d /\ LabelOf(a_points[i]) = l}

\* positions of I whose field is non-null
WithField(I, field) == {i \in I : a_points[i][field] /= NoneNum}

\* sum of the field over the positions of I
RECURSIVE SumField(_, _)
SumField(I, field) ==
    IF I = {} THEN 0
    ELSE LET i == CHOOSE x \in I : TRUE
         IN  a_points[i][field][1] + SumField(I \ {i}, field)

AggFields == {"aum", "flow_nav", "flow_close"}

CountField(field) == "tickers_with_" \o field

\* C11: aggregate_points groups the points that have a date by (date,
\* label), a missing or empty label counting as 'Unknown'.  The daily list
\* has one entry per date, in ascending order; its groups are the labels of
\* that date; in every bucket 'tickers' is the number of its points, each
\* tickers_with_<field> is the number of its points with a non-null field,
\* and each total is the sum of the non-null values, or null exactly when no
\* point of the bucket has the field.
C11_AggregatePoints ==
    a_pc = "done" =>
        LET dated == {i \in DOMAIN a_points : a_points[i].date \notin {NoDate, 0}}
        IN  /\ {a_out[k].date : k \in DOMAIN a_out} = {a_points[i].date : i \in dated}
            /\ \A j, k \in DOMAIN a_out : j < k => a_out[j].date < a_out[k].date
            /\ \A k \in DOMAIN a_out :
                LET d == a_out[k].date
                    groups == a_out[k].groups
                IN  /\ DOMAIN groups = {LabelOf(a_points[i]) : i \in {j \in dated : a_points[j].date = d}}
                    /\ \A l \in DOMAIN groups :
                        /\ groups[l].tickers = Cardinality(BucketOf(d, l))
                        /\ \A field \in AggFields :
                            LET with == WithField(BucketOf(d, l), field)
                            IN  /\ groups[l][CountField(field)] = Cardinality(with)
                                /\ groups[l][field] =
                                       (IF with = {} THEN NoneNum ELSE <<SumField(with, field)>>)
                                /\ groups[l][field] = NoneNum <=> groups[l][CountField(field)] = 0

\* C11 witness: two points of one date, one without a label and one labelled
\* 'Unknown', fell into one bucket whose flow_nav total is 1 + (-1) = 0 from
\* two contributions and whose flow_close total comes from a single point
C11_Witness ==
    /\ a_pc = "done" /\ Len(a_points) = 2 /\ Len(a_out) = 1
    /\ a_points[1].label = None /\ a_points[2].label = "Unknown"
    /\ DOMAIN a_out[1].groups = {"Unknown"}
    /\ a_out[1].groups["Unknown"].tickers = 2
    /\ a_out[1].groups["Unknown"].flow_nav = <<0>>
    /\ a_out[1].groups["Unknown"].tickers_with_flow_nav = 2
    /\ a_out[1].groups["Unknown"].tickers_with_flow_close = 1

-----------------------------------------------------------------------------
(* Derived metrics: the loop body of etffundflows main() and one pass of   *)
(* the loop of advancedecline build_volume_metrics_series.  A float is an  *)
(* exact fraction [n, d] with d > 0.                                       *)

Rat(n, d) == IF d < 0 THEN [n |-> -n, d |-> -d] ELSE [n |-> n, d |-> d]
RatOfInt(v) == [n |-> v, d |-> 1]
RatDiv(a, b) == Rat(a.n * b.d, a.d * b.n)
RatMul(a, b) == Rat(a.n * b.n, a.d * b.d)
RatSub(a, b) == Rat(a.n * b.d - b.n * a.d, a.d * b.d)
RatIsZero(a) == a.n = 0

\* what aum, nav and a close can be: None, 0.0 or a positive number
OptFloats == {NoneNum, <<RatOfInt(0)>>, <<RatOfInt(2)>>}

\* get_prev_point(...) is None
NoPrior == [found |-> FALSE, aum |-> NoneNum, nav |-> NoneNum, close |-> NoneNum]

PriorPoints == {NoPrior} \cup [found : {TRUE}, aum : OptFloats, nav : OptFloats, close : OptFloats]

EtfInputs == [aum : OptFloats, nav : OptFloats, close_t : OptFloats, prior : PriorPoints]

\* (x / y) if (x is not None and y is not None and y != 0) else None
DivOrNone(x, y) ==
    IF x /= NoneNum /\ y /= NoneNum /\ ~RatIsZero(y[1]) THEN <<RatDiv(x[1], y[1])>> ELSE NoneNum

compute_flow(aum_t, aum_prev, r_t) ==
    IF aum_t = NoneNum \/ aum_prev = NoneNum \/ r_t = NoneNum THEN NoneNum
    ELSE <<RatSub(aum_t[1], RatMul(aum_prev[1], r_t[1]))>>

\* (flow / aum) if (flow is not None and aum not in (None, 0)) else None
FlowPctAum(flow, aum) ==
    IF flow /= NoneNum /\ aum /= NoneNum /\ ~RatIsZero(aum[1]) THEN <<RatDiv(flow[1], aum[1])>>
    ELSE NoneNum

\* the derived fields of the point, lines 652-686
EtfPoint(in) ==
    LET aum_prev == in.prior.aum
        nav_prev == in.prior.nav
        close_prev == in.prior.close
        r_nav == DivOrNone(in.nav, nav_prev)
        r_close == DivOrNone(in.close_t, close_prev)
        flow_nav == compute_flow(in.aum, aum_prev, r_nav)
        flow_close == compute_flow(in.aum, aum_prev, r_close)
    IN  [return_factor_nav |-> r_nav,
         return_factor_close |-> r_close,
         flow_nav |-> flow_nav,
         flow_close |-> flow_close,
         flow_nav_pct_aum |-> FlowPctAum(flow_nav, in.aum),
         flow_close_pct_aum |-> FlowPctAum(flow_close, in.aum),
         implied_shares |-> DivOrNone(in.aum, in.nav)]

NoPoint ==
    [return_factor_nav |-> NoneNum, return_factor_close |-> NoneNum, flow_nav |-> NoneNum,
     flow_close |-> NoneNum, flow_nav_pct_aum |-> NoneNum, flow_close_pct_aum |-> NoneNum,
     implied_shares |-> NoneNum]

\* one stock of a session: the sign of close_today - close_prev ("nan" when
\* either close is NaN) and the volume, NoneNum for NaN
Stocks == [change : {"up", "down", "flat", "nan"}, volume : {NoneNum, <<0>>, <<3>>}]

\* vol_today[mask].sum(skipna=True): NaN volumes count as nothing
RECURSIVE SumVolume(_, _)
SumVolume(stocks, changes) ==
    IF stocks = <<>> THEN 0
    ELSE (IF Head(stocks).change \in changes /\ Head(stocks).volume /= NoneNum
          THEN Head(stocks).volume[1] ELSE 0) + SumVolume(Tail(stocks), changes)

\* round(n / d, digits) as a whole number of 10^-digits, ties to even
RoundHalfEven(n, d) ==
    LET q == n \div d
        r == n % d
    IN  IF 2 * r > d \/ (2 * r = d /\ q % 2 = 1) THEN q + 1 ELSE q

\* the row appended for one session, lines 87-106
VolumeRow(stocks) ==
    LET advancing_volume == SumVolume(stocks, {"up"})
        declining_volume == SumVolume(stocks, {"down"})
        total_volume == SumVolume(stocks, {"up", "down", "flat", "nan"})
    IN  [advancing_volume |-> advancing_volume,
         declining_volume |-> declining_volume,
         total_volume |-> total_volume,
         volume_ratio |-> IF declining_volume > 0
                          THEN <<Rat(RoundHalfEven(advancing_volume * 1000, declining_volume), 1000)>>
                          ELSE NoneNum,
         advancing_volume_pct |-> IF total_volume > 0
                                  THEN <<Rat(RoundHalfEven(advancing_volume * 10000, total_volume), 100)>>
                                  ELSE <<RatOfInt(0)>>]

NoRow ==
    [advancing_volume |-> 0, declining_volume |-> 0, total_volume |-> 0,
     volume_ratio |-> NoneNum, advancing_volume_pct |-> NoneNum]

MetricIdle ==
    /\ m_pc = "off" /\ m_in = [aum |-> NoneNum, nav |-> NoneNum, close_t |-> NoneNum, prior |-> NoPrior]
    /\ m_point = NoPoint /\ m_stocks = <<>> /\ m_row = NoRow

MetricInit ==
    /\ m_pc = "ready" /\ m_in = [aum |-> NoneNum, nav |-> NoneNum, close_t |-> NoneNum, prior |-> NoPrior]
    /\ m_point = NoPoint /\ m_stocks = <<>> /\ m_row = NoRow

\* etffundflows main(): the loop body for one ticker
ComputeEtfPoint ==
    /\ m_pc = "ready"
    /\ \E in \in EtfInputs :
        /\ m_in' = in
        /\ m_point' = EtfPoint(in)
    /\ m_pc' = "point"
    /\ UNCHANGED <<m_stocks, m_row>>
    /\ UNCHANGED not_mvars

\* build_volume_metrics_series: the loop body for one session
BuildVolumeRow ==
    /\ m_pc = "ready"
    /\ \E stocks \in SeqsUpTo(Stocks, MaxStocks) :
        /\ m_stocks' = stocks
        /\ m_row' = VolumeRow(stocks)
    /\ m_pc' = "row"
    /\ UNCHANGED <<m_in, m_point>>
    /\ UNCHANGED not_mvars

MetricNext ==
    \/ ComputeEtfPoint
    \/ BuildVolumeRow

-----------------------------------------------------------------------------
(* Properties of the derived metrics (SpecMetric) *)

MissingOrZero(x) == x = NoneNum \/ RatIsZero(x[1])

\* the derived fields of the ETF point are null when an input is missing or
\* the denominator is zero or absent
EtfMetricsNullNotZero ==
    m_pc = "point" =>
        /\ (m_in.nav = NoneNum \/ MissingOrZero(m_in.prior.nav)) =>
               m_point.return_factor_nav = NoneNum
        /\ (m_in.close_t = NoneNum \/ MissingOrZero(m_in.prior.close)) =>
               m_point.return_factor_close = NoneNum
        /\ (m_in.aum = NoneNum \/ m_in.prior.aum = NoneNum
                \/ m_point.return_factor_nav = NoneNum) => m_point.flow_nav = NoneNum
        /\ (m_in.aum = NoneNum \/ m_in.prior.aum = NoneNum
                \/ m_point.return_factor_close = NoneNum) => m_point.flow_close = NoneNum
        /\ (m_point.flow_nav = NoneNum \/ MissingOrZero(m_in.aum)) =>
               m_point.flow_nav_pct_aum = NoneNum
        /\ (m_point.flow_close = NoneNum \/ MissingOrZero(m_in.aum)) =>
               m_point.flow_close_pct_aum = NoneNum
        /\ (m_in.aum = NoneNum \/ MissingOrZero(m_in.nav)) => m_point.implied_shares = NoneNum

\* C12: no derived metric is emitted as zero when it cannot be computed:
\* compute_flow, the return factors, the flow percent-of-AUM fields and
\* implied_shares of the ETF collector, and volume_ratio and
\* advancing_volume_pct of build_volume_metrics_series, are null whenever an
\* input is missing or the denominator they need is zero or absent.
C12_NullNotZero ==
    /\ EtfMetricsNullNotZero
    /\ m_pc = "row" =>
        /\ m_row.declining_volume = 0 => m_row.volume_ratio = NoneNum
        /\ m_row.total_volume = 0 => m_row.advancing_volume_pct = NoneNum

\* the part of C12 the code keeps: every ETF field and volume_ratio
C12_HoldsExceptPct ==
    /\ EtfMetricsNullNotZero
    /\ m_pc = "row" => (m_row.declining_volume = 0 => m_row.volume_ratio = NoneNum)

\* the state C12 fails in: a session without any volume gets pct 0
C12_ZeroPct ==
    /\ m_pc = "row" /\ m_stocks /= <<>> /\ m_row.total_volume = 0
    /\ m_row.advancing_volume_pct = <<RatOfInt(0)>>

-----------------------------------------------------------------------------
(* Series calculators: shared/economy_compute.py calculate_percentile_rank *)
(* and calculate_change_metrics, supportresistence/utils.py                *)
(* simple_moving_average, sp100growth calculate_yoy_growth and             *)
(* calculate_cagr.  NoneNum in a series is None or NaN.                    *)

\* the values of a series: None/NaN, a negative number, 0, positive numbers
OptInts == {NoneNum, <<-2>>, <<0>>, <<1>>, <<3>>}
Ints == {-2, 0, 1, 3}

\* series.dropna(): the non-null values, as numbers
RECURSIVE DropNa(_)
DropNa(series) ==
    IF series = <<>> THEN <<>>
    ELSE IF Head(series) = NoneNum THEN DropNa(Tail(series))
    ELSE <<Head(series)[1]>> \o DropNa(Tail(series))

\* round(n / d, digits) for any sign of n and d /= 0
RoundDiv(n, d) == IF d < 0 THEN RoundHalfEven(-n, -d) ELSE RoundHalfEven(n, d)

Neutral == Rat(5000, 100)

\* faulty variant: values equal to current_value count as below it
calculate_percentile_rank_le(series, current_value) ==
    IF series = <<>> \/ current_value = NoneNum THEN <<Neutral>>
    ELSE LET valid_series == DropNa(series)
         IN  IF Len(valid_series) = 0 THEN <<Neutral>>
             ELSE LET below_count == Cardinality({i \in DOMAIN valid_series :
                                                      valid_series[i] <= current_value[1]})
                  IN  <<Rat(RoundHalfEven(below_count * 10000, Len(valid_series)), 100)>>

\* round((below_count / len(valid_series)) * 100.0, 2), in hundredths
calculate_percentile_rank(series, current_value) ==
    IF series = <<>> \/ current_value = NoneNum THEN <<Neutral>>
    ELSE LET valid_series == DropNa(series)
         IN  IF Len(valid_series) = 0 THEN <<Neutral>>
             ELSE LET below_count == Cardinality({i \in DOMAIN valid_series :
                                                      valid_series[i] < current_value[1]})
                  IN  <<Rat(RoundHalfEven(below_count * 10000, Len(valid_series)), 100)>>

RECURSIVE SumSeq(_)
SumSeq(vals) == IF vals = <<>> THEN 0 ELSE Head(vals) + SumSeq(Tail(vals))

\* faulty variant: the mean of the first window values, vals[:window]
simple_moving_average_first(vals, window) ==
    IF window <= 0 THEN NoneNum
    ELSE IF Len(vals) < window THEN NoneNum
    ELSE <<Rat(SumSeq(FirstSlice(vals, window)), window)>>

\* sum(vals[-window:]) / float(window)
simple_moving_average(vals, window) ==
    IF window <= 0 THEN NoneNum
    ELSE IF Len(vals) < window THEN NoneNum
    ELSE <<Rat(SumSeq(LastSlice(vals, window)), window)>>

\* one entry of calculate_yoy_growth: round((cur / prev) - 1, 4), in 10^-4
YoyEntry(cur, prev) ==
    IF cur /= NoneNum /\ prev /= NoneNum /\ prev[1] /= 0
    THEN <<Rat(RoundDiv((cur[1] - prev[1]) * 10000, prev[1]), 10000)>>
    ELSE NoneNum

\* the dict {period_0: ..., period_1: ...} as the list of its values
calculate_yoy_growth(values) ==
    [i \in 1 .. Len(values) - 1 |-> YoyEntry(values[i], values[i + 1])]

\* round((end_val / start_val) ** (1 / years) - 1, 4).  The power of a
\* negative base is a float when years = 1 and a complex number otherwise,
\* and round() of a complex raises TypeError, which the except clause turns
\* into None.  The root is kept symbolic: [base, years].
calculate_cagr(start_val, end_val, years) ==
    IF start_val = NoneNum \/ end_val = NoneNum THEN NoneNum
    ELSE IF start_val[1] <= 0 \/ years <= 0 THEN NoneNum
    ELSE IF end_val[1] < 0 /\ years /= 1 THEN NoneNum
    ELSE <<[base |-> Rat(end_val[1], start_val[1]), years |-> years]>>

\* calculate_change_metrics(df, periods={name: num_periods}): the dict as
\* the list of its values; {} for an empty frame
calculate_change_metrics(values, num_periods) ==
    IF values = <<>> THEN <<>>
    ELSE LET df_clean == DropNa(values)
         IN  IF df_clean = <<>> THEN <<NoneNum>>
             ELSE LET current_value == df_clean[Len(df_clean)]
                  IN  IF Len(df_clean) > num_periods
                      THEN LET past_value == df_clean[Len(df_clean) - num_periods]
                           IN  IF past_value /= 0
                               THEN <<(<<Rat(RoundDiv((current_value - past_value) * 10000,
                                                      IF past_value < 0 THEN -past_value
                                                      ELSE past_value), 100)>>)>>
                               ELSE <<NoneNum>>
                      ELSE <<NoneNum>>

CalcSeries == SeqsUpTo(OptInts, MaxSeries)
NumSeries == SeqsUpTo(Ints, MaxSeries)

CalcIdle ==
    /\ c_pc = "off" /\ c_series = <<>> /\ c_x = NoneNum /\ c_y = NoneNum /\ c_k = 0
    /\ c_out = NoneNum /\ c_list = <<>> /\ c_series2 = <<>> /\ c_out2 = NoneNum

CalcInit ==
    /\ c_pc = "ready" /\ c_series = <<>> /\ c_x = NoneNum /\ c_y = NoneNum /\ c_k = 0
    /\ c_out = NoneNum /\ c_list = <<>> /\ c_series2 = <<>> /\ c_out2 = NoneNum

CallPercentileRank ==
    /\ c_pc = "ready"
    /\ \E series \in CalcSeries, current_value \in OptInts :
        /\ c_series' = series /\ c_x' = current_value
        /\ c_out' = calculate_percentile_rank(series, current_value)
    /\ c_pc' = "percentile"
    /\ UNCHANGED <<c_y, c_k, c_list, c_series2, c_out2>>
    /\ UNCHANGED not_cvars

\* values is a list of floats (the closes of the bars)
CallSimpleMovingAverage ==
    /\ c_pc = "ready"
    /\ \E vals \in NumSeries, window \in -1 .. MaxSeries + 1 :
        /\ c_series' = vals /\ c_k' = window
        /\ c_out' = simple_moving_average(vals, window)
    /\ c_pc' = "sma"
    /\ UNCHANGED <<c_x, c_y, c_list, c_series2, c_out2>>
    /\ UNCHANGED not_cvars

\* a second call with the same window on a list with the same last values
CallSmaOther ==
    /\ c_pc = "sma" /\ c_k >= 1 /\ Len(c_series) >= c_k
    /\ \E vals \in NumSeries :
        /\ Len(vals) >= c_k
        /\ LastSlice(vals, c_k) = LastSlice(c_series, c_k)
        /\ c_series2' = vals
        /\ c_out2' = simple_moving_average(vals, c_k)
    /\ c_pc' = "sma_other"
    /\ UNCHANGED <<c_series, c_x, c_y, c_k, c_out, c_list>>
    /\ UNCHANGED not_cvars

CallYoyGrowth ==
    /\ c_pc = "ready"
    /\ \E values \in CalcSeries :
        /\ c_series' = values
        /\ c_list' = calculate_yoy_growth(values)
    /\ c_pc' = "yoy"
    /\ UNCHANGED <<c_x, c_y, c_k, c_out, c_series2, c_out2>>
    /\ UNCHANGED not_cvars

CallCagr ==
    /\ c_pc = "ready"
    /\ \E start_val \in OptInts, end_val \in OptInts, years \in 0 .. MaxSeries :
        /\ c_x' = start_val /\ c_y' = end_val /\ c_k' = years
        /\ c_out' = calculate_cagr(start_val, end_val, years)
    /\ c_pc' = "cagr"
    /\ UNCHANGED <<c_series, c_list, c_series2, c_out2>>
    /\ UNCHANGED not_cvars

CallChangeMetrics ==
    /\ c_pc = "ready"
    /\ \E values \in CalcSeries, num_periods \in 1 .. MaxSeries :
        /\ c_series' = values /\ c_k' = num_periods
        /\ c_list' = calculate_change_metrics(values, num_periods)
    /\ c_pc' = "change"
    /\ UNCHANGED <<c_x, c_y, c_out, c_series2, c_out2>>
    /\ UNCHANGED not_cvars

CalcNext ==
    \/ CallPercentileRank
    \/ CallSimpleMovingAverage
    \/ CallSmaOther
    \/ CallYoyGrowth
    \/ CallCagr
    \/ CallChangeMetrics

-----------------------------------------------------------------------------
(* Properties of the series calculators (SpecCalc) *)

\* positions of the series holding a non-null value, and those below x
NonNullAt == {i \in DOMAIN c_series : c_series[i] /= NoneNum}
BelowAt == {i \in NonNullAt : c_x /= NoneNum /\ c_series[i][1] < c_x[1]}

\* the returned number r lies between 0 and 100
InPercentRange(r) == 0 <= r.n /\ r.n <= 100 * r.d

Abs(v) == IF v < 0 THEN -v ELSE v

\* C13 as stated: calculate_percentile_rank returns 50.0 when the series is
\* empty or holds no non-null value; otherwise it returns 100 times the
\* fraction of the non-null values strictly less than x, between 0 and 100.
C13_AsStated ==
    c_pc = "percentile" =>
        IF NonNullAt = {} THEN c_out = <<Neutral>>
        ELSE /\ c_out[1].n * Cardinality(NonNullAt) = 100 * Cardinality(BelowAt) * c_out[1].d
             /\ InPercentRange(c_out[1])

\* C13 amended: 50.0 is also returned when x is NaN, and otherwise the
\* result is 100 times the fraction rounded to two decimals (a whole number
\* of hundredths at most 0.005 away from it), between 0 and 100.
C13_PercentileRank ==
    c_pc = "percentile" =>
        IF NonNullAt = {} \/ c_x = NoneNum THEN c_out = <<Neutral>>
        ELSE /\ c_out[1].d = 100
             /\ 2 * Abs(c_out[1].n * Cardinality(NonNullAt) - 10000 * Cardinality(BelowAt))
                    <= Cardinality(NonNullAt)
             /\ InPercentRange(c_out[1])

\* C13 witness: of three values one is below x and one equals x: 33.33
C13_Witness ==
    /\ c_pc = "percentile"
    /\ c_series = <<(<<-2>>), (<<1>>), (<<3>>)>> /\ c_x = <<1>>
    /\ c_out = <<Rat(3333, 100)>>

\* sum of the values at the positions of I
RECURSIVE SumAt(_, _)
SumAt(vals, I) ==
    IF I = {} THEN 0
    ELSE LET i == CHOOSE x \in I : TRUE
         IN  vals[i] + SumAt(vals, I \ {i})

\* C14: simple_moving_average(values, w) is None whenever len(values) < w
\* and whenever w <= 0; otherwise it is the arithmetic mean of exactly the
\* last w values, so two lists with the same last w values give the same
\* result whatever their earlier values are.
C14_MovingAverage ==
    c_pc \in {"sma", "sma_other"} =>
        /\ (Len(c_series) < c_k \/ c_k <= 0) => c_out = NoneNum
        /\ (Len(c_series) >= c_k /\ c_k > 0) =>
               c_out = <<Rat(SumAt(c_series, (Len(c_series) - c_k + 1) .. Len(c_series)), c_k)>>
        /\ c_pc = "sma_other" => c_out2 = c_out

\* C14 witness: the mean of the last two of three values, and the same mean
\* for a list that differs in its first value
C14_Witness ==
    /\ c_pc = "sma_other" /\ c_k = 2
    /\ c_series = <<-2, 1, 3>> /\ c_series2 = <<3, 1, 3>>
    /\ c_out = <<Rat(4, 2)>> /\ c_out2 = c_out

\* a value that is present and strictly positive
Positive(v) == v /= NoneNum /\ v[1] > 0

\* C15: the growth calculators return None whenever either endpoint is
\* missing or not strictly positive: calculate_yoy_growth and
\* calculate_change_metrics for the percent change between the current and
\* the earlier value, calculate_cagr between start_val and end_val; a number
\* is produced only when both endpoints are present and positive.
C15_GrowthUndefined ==
    /\ c_pc = "yoy" =>
        \A i \in DOMAIN c_list :
            c_list[i] /= NoneNum => Positive(c_series[i]) /\ Positive(c_series[i + 1])
    /\ c_pc = "cagr" =>
        (c_out /= NoneNum => Positive(c_x) /\ Positive(c_y))
    /\ c_pc = "change" =>
        \A i \in DOMAIN c_list :
            c_list[i] /= NoneNum =>
                LET df_clean == DropNa(c_series)
                IN  /\ Len(df_clean) > c_k
                    /\ df_clean[Len(df_clean)] > 0
                    /\ df_clean[Len(df_clean) - c_k] > 0

\* what the code does guarantee: a number only when both endpoints are
\* present and the earlier one is not zero (positive for calculate_cagr)
C15_CodeGuards ==
    /\ c_pc = "yoy" =>
        \A i \in DOMAIN c_list :
            c_list[i] /= NoneNum <=>
                (c_series[i] /= NoneNum /\ c_series[i + 1] /= NoneNum /\ c_series[i + 1][1] /= 0)
    /\ c_pc = "cagr" =>
        (c_out /= NoneNum => Positive(c_x) /\ c_y /= NoneNum)
    /\ c_pc = "change" =>
        \A i \in DOMAIN c_list :
            c_list[i] /= NoneNum =>
                LET df_clean == DropNa(c_series)
                IN  Len(df_clean) > c_k /\ df_clean[Len(df_clean) - c_k] /= 0

\* the state C15 fails in: a year-over-year growth out of a negative base
C15_NegativeBase ==
    /\ c_pc = "yoy" /\ c_series = <<(<<3>>), (<<-2>>)>>
    /\ c_list = <<(<<Rat(-25000, 10000)>>)>>

-----------------------------------------------------------------------------
(* Collector runs: main() of fetch_ma_spreads, fetch_price_vs_ma,          *)
(* fetch_sp100_growth, fetch_etf_fund_flows and fetch_support_resistence,  *)
(* reduced to the universe check, the per-entity loop and the save.        *)

Collectors ==
    {"fetch_ma_spreads", "fetch_price_vs_ma", "fetch_sp100_growth", "fetch_etf_fund_flows",
     "fetch_support_resistence"}

\* the collectors whose loop body is inside try / except Exception: continue
LoopHasHandler(collector) == collector \in {"fetch_ma_spreads", "fetch_price_vs_ma"}

\* the collectors that resolve their universe at run time and test it;
\* the others loop over the list their config.yml names
ResolvesUniverse(collector) == collector \in {"fetch_sp100_growth", "fetch_etf_fund_flows"}

\* `if not tickers`: fetch_etf_fund_flows prints and returns 0,
\* fetch_sp100_growth raises SystemExit(message), which is exit code 1
EmptyUniverseExit(collector) ==
    IF collector = "fetch_etf_fund_flows" THEN <<0>> ELSE <<1>>

RunIdle ==
    /\ r_collector = "fetch_ma_spreads" /\ r_entities = 0 /\ r_pc = "off"
    /\ r_outcomes = <<>> /\ r_written = FALSE /\ r_exit = <<>>

RunInit ==
    /\ r_collector \in Collectors
    /\ r_entities \in 0 .. MaxEntities
    /\ (r_entities = 0 => ResolvesUniverse(r_collector))
    /\ r_pc = "start" /\ r_outcomes = <<>> /\ r_written = FALSE /\ r_exit = <<>>

\* the universe is empty: the run ends before anything is read or written
ExitEmptyUniverse ==
    /\ r_pc = "start" /\ ResolvesUniverse(r_collector) /\ r_entities = 0
    /\ r_exit' = EmptyUniverseExit(r_collector)
    /\ r_pc' = "exited"
    /\ UNCHANGED <<r_collector, r_entities, r_outcomes, r_written>>
    /\ UNCHANGED not_rvars

\* fetch_etf_fund_flows: no completed session in the price data, return 0
ExitNoSession ==
    /\ r_pc = "start" /\ r_collector = "fetch_etf_fund_flows" /\ r_entities > 0
    /\ r_exit' = <<0>>
    /\ r_pc' = "exited"
    /\ UNCHANGED <<r_collector, r_entities, r_outcomes, r_written>>
    /\ UNCHANGED not_rvars

EnterLoop ==
    /\ r_pc = "start" /\ r_entities > 0
    /\ r_pc' = "loop"
    /\ UNCHANGED <<r_collector, r_entities, r_outcomes, r_written, r_exit>>
    /\ UNCHANGED not_rvars

\* one pass of the loop body that runs to its end (or to a `continue`)
ProcessEntity ==
    /\ r_pc = "loop" /\ Len(r_outcomes) < r_entities
    /\ r_outcomes' = Append(r_outcomes, "ok")
    /\ UNCHANGED <<r_collector, r_entities, r_pc, r_written, r_exit>>
    /\ UNCHANGED not_rvars

\* one pass in which the body raises, inside try / except Exception
EntityRaisesCaught ==
    /\ r_pc = "loop" /\ Len(r_outcomes) < r_entities
    /\ LoopHasHandler(r_collector)
    /\ r_outcomes' = Append(r_outcomes, "caught")
    /\ UNCHANGED <<r_collector, r_entities, r_pc, r_written, r_exit>>
    /\ UNCHANGED not_rvars

\* one pass in which the body raises and no handler encloses it: the
\* exception leaves main(), the interpreter prints it and exits with 1
EntityRaisesUncaught ==
    /\ r_pc = "loop" /\ Len(r_outcomes) < r_entities
    /\ ~LoopHasHandler(r_collector)
    /\ r_outcomes' = Append(r_outcomes, "raised")
    /\ r_exit' = <<1>>
    /\ r_pc' = "exited"
    /\ UNCHANGED <<r_collector, r_entities, r_written>>
    /\ UNCHANGED not_rvars

\* after the loop: the output is written and main() returns
SaveOutput ==
    /\ r_pc = "loop" /\ Len(r_outcomes) = r_entities
    /\ r_written' = TRUE
    /\ r_exit' = <<0>>
    /\ r_pc' = "exited"
    /\ UNCHANGED <<r_collector, r_entities, r_outcomes>>
    /\ UNCHANGED not_rvars

RunNext ==
    \/ ExitEmptyUniverse
    \/ ExitNoSession
    \/ EnterLoop
    \/ ProcessEntity
    \/ EntityRaisesCaught
    \/ EntityRaisesUncaught
    \/ SaveOutput

-----------------------------------------------------------------------------
(* Properties of the collector runs (SpecRun) *)

\* C16: a run of fetch_etf_fund_flows or fetch_sp100_growth whose resolved
\* universe is empty aborts with a non-zero exit code and writes no output;
\* exit code 0 is returned only when the run completed its processing.
C16_EmptyUniverseFatal ==
    r_pc = "exited" =>
        /\ r_entities = 0 => (r_exit /= <<0>> /\ ~r_written)
        /\ r_exit = <<0>> => (r_written /\ Len(r_outcomes) = r_entities)

\* what the code does for an empty universe: no output, and a non-zero exit
\* code from fetch_sp100_growth only
C16_CodeBehaviour ==
    (r_pc = "exited" /\ r_entities = 0) =>
        /\ ~r_written
        /\ r_exit = <<0>> <=> r_collector = "fetch_etf_fund_flows"

\* the state C16 fails in
C16_EmptyExitZero ==
    /\ r_pc = "exited" /\ r_collector = "fetch_etf_fund_flows" /\ r_entities = 0
    /\ r_exit = <<0>> /\ ~r_written

\* C17: in every collector's per-entity loop an exception raised while
\* processing one entity is caught at the loop boundary: all remaining
\* entities are still processed, the output file is still written and the
\* run exits with code 0.
C17_EntityExceptionCaught ==
    (r_pc = "exited" /\ \E i \in DOMAIN r_outcomes : r_outcomes[i] /= "ok") =>
        /\ Len(r_outcomes) = r_entities
        /\ r_written
        /\ r_exit = <<0>>

\* the collectors that keep C17: the two mean-reversion scripts
C17_HoldsWithHandler ==
    (r_pc = "exited" /\ LoopHasHandler(r_collector)) =>
        /\ Len(r_outcomes) = r_entities
        /\ r_written
        /\ r_exit = <<0>>

\* the state C17 fails in: the first ticker raised, two were never reached
C17_RunAborted ==
    /\ r_pc = "exited" /\ r_collector = "fetch_sp100_growth" /\ r_entities = 3
    /\ r_outcomes = <<"raised">> /\ ~r_written /\ r_exit = <<1>>

-----------------------------------------------------------------------------
(* etffundflows main(): the per-ticker month documents.  A run reads the   *)
(* month document of its session date, upserts one point per ticker of its *)
(* universe and writes the document back.                                  *)

EtfTickers == {"SPY", "QQQ"}

\* faulty variant: every session date is filed under the first month
month_key_first(d) == 1

\* month_key(d): f"{d.year:04d}-{d.month:02d}", with DaysPerMonth dates a month
month_key(d) == (d + DaysPerMonth - 1) \div DaysPerMonth

MonthKeys == {month_key(d) : d \in IsoDates}

\* a ticker without a node in "data", and a month file that does not exist
NoNode == [present |-> FALSE, daily |-> <<>>]
NoMonthDoc == [exists |-> FALSE, data |-> [t \in EtfTickers |-> NoNode]]

\* read_monthly_json(path) or {..., "data": {}}
read_monthly_json(files, mkey) == files[mkey]

\* the loop of main() over universe_rows: tnode = data.get(t) or {...};
\* tnode["daily"] = upsert_daily_point(tnode.get("daily") or [], point)
EtfMonthDocument(files, mkey, session_date, universe, val) ==
    LET cur_doc == read_monthly_json(files, mkey)
        point == [date |-> session_date, val |-> val]
    IN  [exists |-> TRUE,
         data |-> [t \in EtfTickers |->
                      IF t \in universe
                      THEN [present |-> TRUE,
                            daily |-> upsert_daily_point(cur_doc.data[t].daily, point)]
                      ELSE cur_doc.data[t]]]

MonthIdle ==
    /\ e_files = [m \in MonthKeys |-> NoMonthDoc]
    /\ e_prev = [m \in MonthKeys |-> NoMonthDoc]
    /\ e_last = [ran |-> FALSE, date |-> 1, universe |-> {}, val |-> "a"]

MonthInit == MonthIdle

\* one run with a non-empty universe and a session date, forced or detected
EtfRun ==
    /\ \E session_dt \in IsoDates, universe \in SUBSET EtfTickers, val \in Vals :
        /\ universe /= {}
        /\ e_last' = [ran |-> TRUE, date |-> session_dt, universe |-> universe, val |-> val]
        /\ e_files' = [e_files EXCEPT ![month_key(session_dt)] =
                          EtfMonthDocument(e_files, month_key(session_dt), session_dt,
                                           universe, val)]
    /\ e_prev' = e_files
    /\ UNCHANGED not_evars

MonthNext == EtfRun

-----------------------------------------------------------------------------
(* Properties of the month documents (SpecMonth) *)

\* the month a date lies in, by the calendar
MonthOf(d) == CHOOSE m \in 1 .. MaxDate : (m - 1) * DaysPerMonth < d /\ d <= m * DaysPerMonth

OtherDates(daily, d) == SelectSeq(daily, LAMBDA p : p.date /= d)

\* C18: a run for session date d writes per-ticker points only into the
\* month document of d's month and deletes nothing: the other month
\* documents are as before; in the month document of d every stored point
\* of another date, and every node of a ticker outside the run's universe,
\* is unchanged, and every ticker of the universe has the point of d; hence
\* every stored point's date lies in the month of the file that holds it.
C18_MonthPartition ==
    /\ e_last.ran =>
        LET d == e_last.date
            m == MonthOf(d)
        IN  /\ \A k \in MonthKeys \ {m} : e_files[k] = e_prev[k]
            /\ e_files[m].exists
            /\ \A t \in EtfTickers \ e_last.universe :
                   e_files[m].data[t] = e_prev[m].data[t]
            /\ \A t \in e_last.universe :
                   /\ e_files[m].data[t].present
                   /\ OtherDates(e_files[m].data[t].daily, d) =
                          OtherDates(e_prev[m].data[t].daily, d)
                   /\ Count(e_files[m].data[t].daily, RowsOfDate(d)) = 1
                   /\ Count(e_files[m].data[t].daily, {[date |-> d, val |-> e_last.val]}) = 1
    /\ \A k \in MonthKeys, t \in EtfTickers :
           \A i \in DOMAIN e_files[k].data[t].daily :
               MonthOf(e_files[k].data[t].daily[i].date) = k

\* C18 witness: a run for a date of the second month left the first month's
\* document, which holds points, as it was, and a later run for the first
\* month kept the stored point of the month's other date
C18_Witness ==
    /\ e_last.ran /\ e_last.date = 2 /\ e_last.universe = {"SPY"}
    /\ e_files[2].exists /\ e_files[2] = e_prev[2]
    /\ Len(e_files[2].data["QQQ"].daily) = 1
    /\ Len(e_files[1].data["SPY"].daily) = 2
    /\ Len(e_prev[1].data["SPY"].daily) = 1
    /\ e_files[1].data["QQQ"] = e_prev[1].data["QQQ"]
    /\ e_prev[1].data["QQQ"].present

-----------------------------------------------------------------------------
(* Two processes run etffundflows main() on the same month file.  Each     *)
(* reads the file (read_monthly_json), builds its document in memory and   *)
(* writes it (write_monthly_json); nothing locks the file.  A read and a   *)
(* write are one step each.                                                *)

Procs == {1, 2}

\* the month file both runs target
SharedMonth == 1

\* session dates of that month
SharedDates == {d \in IsoDates : month_key(d) = SharedMonth}

\* a month file written by an earlier run
StoredMonthDoc ==
    [exists |-> TRUE,
     data |-> [t \in EtfTickers |->
                  IF t = "SPY" THEN [present |-> TRUE, daily |-> <<[date |-> 1, val |-> "a"]>>]
                  ELSE NoNode]]

\* faulty variant: the document is built from the file as it is when the
\* run writes, as if the run held a lock from its read to its write
DocumentToWrite_locked(file_now, snapshot, session_date, universe, val) ==
    EtfMonthDocument([m \in MonthKeys |-> file_now], SharedMonth, session_date, universe, val)

\* cur_doc as main() holds it at write_monthly_json: built from what
\* read_monthly_json returned earlier in the run
DocumentToWrite(file_now, snapshot, session_date, universe, val) ==
    EtfMonthDocument([m \in MonthKeys |-> snapshot], SharedMonth, session_date, universe, val)

NoProc == [pc |-> "off", date |-> 1, universe |-> {}, val |-> "a", snapshot |-> NoMonthDoc]

ConcIdle ==
    /\ k_init = NoMonthDoc /\ k_file = NoMonthDoc
    /\ k_proc = [p \in Procs |-> NoProc]
    /\ k_log = <<>>

\* both runs are started with their own session date and universe
ConcInit ==
    /\ k_init \in {NoMonthDoc, StoredMonthDoc}
    /\ k_file = k_init
    /\ k_proc \in [Procs -> [pc : {"start"}, date : SharedDates,
                             universe : (SUBSET EtfTickers) \ {{}}, val : Vals,
                             snapshot : {NoMonthDoc}]]
    /\ k_log = <<>>

\* cur_doc = read_monthly_json(cur_path) or {...}
ReadMonthFile(p) ==
    /\ k_proc[p].pc = "start"
    /\ k_proc' = [k_proc EXCEPT ![p].pc = "read", ![p].snapshot = k_file]
    /\ k_log' = Append(k_log, [proc |-> p, op |-> "read"])
    /\ UNCHANGED <<k_init, k_file>>
    /\ UNCHANGED not_kvars

\* the ticker loop, then write_monthly_json(cur_path, cur_doc, indent)
WriteMonthFile(p) ==
    /\ k_proc[p].pc = "read"
    /\ k_file' = DocumentToWrite(k_file, k_proc[p].snapshot, k_proc[p].date,
                                 k_proc[p].universe, k_proc[p].val)
    /\ k_proc' = [k_proc EXCEPT ![p].pc = "done"]
    /\ k_log' = Append(k_log, [proc |-> p, op |-> "write"])
    /\ UNCHANGED k_init
    /\ UNCHANGED not_kvars

ReadStep == \E p \in Procs : ReadMonthFile(p)
WriteStep == \E p \in Procs : WriteMonthFile(p)

ConcNext ==
    \/ ReadStep
    \/ WriteStep

-----------------------------------------------------------------------------
(* Properties of the interleaved runs (SpecConc) *)

BothDone == \A p \in Procs : k_proc[p].pc = "done"

\* position in the log of the read and of the write of run p
ReadAt(p) == CHOOSE i \in DOMAIN k_log : k_log[i] = [proc |-> p, op |-> "read"]
WriteAt(p) == CHOOSE i \in DOMAIN k_log : k_log[i] = [proc |-> p, op |-> "write"]

FirstWriter == CHOOSE p \in Procs : \A q \in Procs : WriteAt(p) <= WriteAt(q)
LastWriter == CHOOSE p \in Procs : \A q \in Procs : WriteAt(q) <= WriteAt(p)

\* both runs read the file before either wrote it
BothReadFirst == \A p, q \in Procs : ReadAt(p) < WriteAt(q)

\* the second run read the file after the first had written it
Sequential == WriteAt(FirstWriter) < ReadAt(LastWriter)

\* the document run p builds from the document doc
RunOn(doc, p) ==
    EtfMonthDocument([m \in MonthKeys |-> doc], SharedMonth, k_proc[p].date,
                     k_proc[p].universe, k_proc[p].val)

\* run p upserted a point that the file now lacks
LostPointOf(p) ==
    \E t \in k_proc[p].universe :
        Count(k_file.data[t].daily, RowsOfDate(k_proc[p].date)) = 0

\* C19: runs are not isolated.  When both runs read the file before either
\* writes it, the file ends as the last writer's document, built from the
\* file as it was before both runs, so what the first writer upserted is
\* not in it; when the runs are strictly sequential the file holds the
\* second run's upsert applied to the first run's document and no point of
\* either run is missing.
C19_LastWriterWins ==
    BothDone =>
        /\ BothReadFirst => k_file = RunOn(k_init, LastWriter)
        /\ Sequential =>
               /\ k_file = RunOn(RunOn(k_init, FirstWriter), LastWriter)
               /\ \A p \in Procs : ~LostPointOf(p)

\* C19 witness (the lost update): both runs read the stored file, run 1
\* wrote a point for QQQ, run 2 then wrote its document, and the file has
\* no QQQ point
C19_Witness ==
    /\ BothDone /\ BothReadFirst
    /\ FirstWriter = 1 /\ LastWriter = 2
    /\ k_init = StoredMonthDoc
    /\ k_proc[1].universe = {"QQQ"} /\ k_proc[2].universe = {"SPY"}
    /\ LostPointOf(1)
    /\ ~k_file.data["QQQ"].present

-----------------------------------------------------------------------------
(* shared/ticker_utils.py: dedupe_company_tickers(tickers) *)

\* the first loop: by_company.setdefault(c, []).append(nt)
RECURSIVE GroupByCompany(_, _)
GroupByCompany(by_company, tickers) ==
    IF tickers = <<>> THEN by_company
    ELSE LET nt == normalize_ticker(Head(tickers))
             c == canonical_company_ticker(nt)
             with_c == SetDefault(by_company, c, <<>>)
         IN  IF nt = <<>> THEN GroupByCompany(by_company, Tail(tickers))
             ELSE GroupByCompany([with_c EXCEPT ![c] = Append(with_c[c], nt)], Tail(tickers))

\* faulty variant: the first-seen symbol of the group is always emitted
ChosenTicker_first(c, group) == IF group /= <<>> THEN group[1] ELSE c

\* chosen = c if c in group else group[0] if group else c
ChosenTicker(c, group) ==
    IF \E i \in DOMAIN group : group[i] = c THEN c
    ELSE IF group /= <<>> THEN group[1] ELSE c

\* the second loop, from the state (out, seen_company) over the rest
RECURSIVE EmitCompanies(_, _, _, _)
EmitCompanies(by_company, tickers, out, seen_company) ==
    IF tickers = <<>> THEN out
    ELSE LET nt == normalize_ticker(Head(tickers))
             c == canonical_company_ticker(nt)
             group == IF c \in DOMAIN by_company THEN by_company[c] ELSE <<>>
         IN  IF nt = <<>> \/ c \in seen_company
             THEN EmitCompanies(by_company, Tail(tickers), out, seen_company)
             ELSE EmitCompanies(by_company, Tail(tickers),
                                Append(out, ChosenTicker(c, group)), seen_company \cup {c})

dedupe_company_tickers(tickers) ==
    EmitCompanies(GroupByCompany(<<>>, tickers), tickers, <<>>, {})

\* spellings a universe list may hold
DedupeTickers ==
    {NoneTicker, GOOG, GOOGL, <<"g", "o", "o", "g">>, FOX, FOXA, NWS, NWSA,
     <<"b", "r", "k", ".", "b">>}

DedupeIdle == d_pc = "off" /\ d_tickers = <<>> /\ d_out = <<>>

DedupeInit ==
    /\ d_pc = "ready" /\ d_tickers \in SeqsUpTo(DedupeTickers, MaxUniverse) /\ d_out = <<>>

CallDedupeCompanyTickers ==
    /\ d_pc = "ready"
    /\ d_out' = dedupe_company_tickers(d_tickers)
    /\ d_pc' = "done"
    /\ UNCHANGED d_tickers
    /\ UNCHANGED not_dvars

DedupeNext == CallDedupeCompanyTickers

-----------------------------------------------------------------------------
(* Properties of dedupe_company_tickers (SpecDedupe) *)

\* positions of the input holding a non-empty symbol, and of company c
SymbolAt == {i \in DOMAIN d_tickers : normalize_ticker(d_tickers[i]) /= <<>>}
CompanyAt(i) == canonical_company_ticker(normalize_ticker(d_tickers[i]))
PositionsOf(c) == {i \in SymbolAt : CompanyAt(i) = c}
FirstPositionOf(c) == CHOOSE i \in PositionsOf(c) : \A j \in PositionsOf(c) : i <= j

\* C20: dedupe_company_tickers returns exactly one ticker per company of
\* the input (companies being canonical_company_ticker of the normalized
\* symbol, empty symbols dropped), in the order of each company's first
\* occurrence; the canonical symbol is emitted when it occurs anywhere in
\* the input, else the company's first-seen normalized symbol; GOOG+GOOGL
\* gives GOOGL, FOX+FOXA gives FOXA, NWS+NWSA gives NWSA.
C20_DedupeCompanies ==
    d_pc = "done" =>
        LET companies == {CompanyAt(i) : i \in SymbolAt}
            CompanyOfOut(k) == canonical_company_ticker(d_out[k])
        IN  /\ Len(d_out) = Cardinality(companies)
            /\ {CompanyOfOut(k) : k \in DOMAIN d_out} = companies
            /\ \A j, k \in DOMAIN d_out :
                   j < k => FirstPositionOf(CompanyOfOut(j)) < FirstPositionOf(CompanyOfOut(k))
            /\ \A k \in DOMAIN d_out :
                   LET c == CompanyOfOut(k)
                   IN  d_out[k] =
                           (IF \E i \in PositionsOf(c) : normalize_ticker(d_tickers[i]) = c
                            THEN c
                            ELSE normalize_ticker(d_tickers[FirstPositionOf(c)]))
            /\ d_tickers = <<GOOG, GOOGL>> => d_out = <<GOOGL>>
            /\ d_tickers = <<FOX, FOXA>> => d_out = <<FOXA>>
            /\ d_tickers = <<NWS, NWSA>> => d_out = <<NWSA>>

\* C20 witness: FOX came first and FOXA later, with another company in
\* between; FOXA is emitted at FOX's place
C20_Witness ==
    /\ d_pc = "done"
    /\ d_tickers = <<FOX, <<"b", "r", "k", ".", "b">>, FOXA>>
    /\ d_out = <<FOXA, <<"B", "R", "K", "-", "B">>>>

-----------------------------------------------------------------------------
(* etffundflows: get_prev_point(current_month_doc, prev_month_doc, ticker,  *)
(* session_date), called by the loop of main() before the session's point  *)
(* is upserted.  A returned Optional point is a sequence: <<>> is None.     *)

\* (((doc.get("data") or {}).get(ticker) or {}).get("daily") or []), [] if not doc
points_from(doc, ticker) ==
    IF ~doc.exists THEN <<>>
    ELSE IF ~doc.data[ticker].present THEN <<>>
    ELSE doc.data[ticker].daily

\* [p for p in points if (p.get("date") or "") < session_date]
Before(points, session_date) == SelectSeq(points, LAMBDA p : DateKey(p) < session_date)

\* faulty variant: the comparison admits the session's own date
get_prev_point_le(current_month_doc, prev_month_doc, ticker, session_date) ==
    LET prev == SelectSeq(points_from(current_month_doc, ticker),
                          LAMBDA p : DateKey(p) <= session_date)
        prev2 == SelectSeq(points_from(prev_month_doc, ticker),
                           LAMBDA p : DateKey(p) <= session_date)
    IN  IF prev /= <<>> THEN <<SortByDate(prev)[Len(prev)]>>
        ELSE IF prev2 /= <<>> THEN <<SortByDate(prev2)[Len(prev2)]>>
        ELSE <<>>

get_prev_point(current_month_doc, prev_month_doc, ticker, session_date) ==
    LET prev == Before(points_from(current_month_doc, ticker), session_date)
        prev2 == Before(points_from(prev_month_doc, ticker), session_date)
    IN  IF prev /= <<>> THEN <<SortByDate(prev)[Len(prev)]>>
        ELSE IF prev2 /= <<>> THEN <<SortByDate(prev2)[Len(prev2)]>>
        ELSE <<>>

\* the daily list a month document holds for a ticker: one point per date of
\* a set of dates, ascending (upsert_daily_point keeps it so)
RECURSIVE DailyOf(_, _)
DailyOf(dates, val) ==
    IF dates = {} THEN <<>>
    ELSE LET d == CHOOSE x \in dates : \A y \in dates : y <= x
         IN  Append(DailyOf(dates \ {d}, val), [date |-> d, val |-> val])

PrevNodes(val) ==
    {NoNode} \cup {[present |-> TRUE, daily |-> DailyOf(ds, val)] : ds \in SUBSET IsoDates}

\* month documents: the node of the ticker asked for is any node, the other
\* ticker has no node or one point
PrevDocs(ticker, val) ==
    {[exists |-> TRUE,
      data |-> [t \in EtfTickers |-> IF t = ticker THEN node ELSE other]] :
        node \in PrevNodes(val),
        other \in {NoNode, [present |-> TRUE, daily |-> DailyOf({1}, "other")]}}

PrevIdle ==
    /\ p_pc = "off"
    /\ p_cur = NoMonthDoc
    /\ p_prevdoc = NoMonthDoc
    /\ p_ticker = "SPY"
    /\ p_session = 1
    /\ p_out = <<>>

\* cur_doc is read_monthly_json(cur_path) or a new document; prev_doc is
\* read_monthly_json(prev_path), None when the file does not exist
PrevInit ==
    /\ p_pc = "ready"
    /\ p_ticker \in EtfTickers
    /\ p_session \in IsoDates
    /\ p_cur \in PrevDocs(p_ticker, "cur")
    /\ p_prevdoc \in {NoMonthDoc} \cup PrevDocs(p_ticker, "prev")
    /\ p_out = <<>>

CallGetPrevPoint ==
    /\ p_pc = "ready"
    /\ p_pc' = "done"
    /\ p_out' = get_prev_point(p_cur, p_prevdoc, p_ticker, p_session)
    /\ UNCHANGED <<p_cur, p_prevdoc, p_ticker, p_session>>
    /\ UNCHANGED not_pvars

PrevNext == CallGetPrevPoint

-----------------------------------------------------------------------------
(* Properties of get_prev_point (SpecPrev) *)

\* the points of the ticker that a document stores (none when there is no
\* document, no node or no list), and those dated before d
StoredPoints(doc, ticker) ==
    IF doc.exists /\ doc.data[ticker].present THEN SetOf(doc.data[ticker].daily) ELSE {}

EarlierPoints(doc, ticker, d) == {p \in StoredPoints(doc, ticker) : p.date < d}

LatestOf(S) == CHOOSE p \in S : \A q \in S : q.date <= p.date

\* C21: get_prev_point returns the current-month document's point of the
\* ticker with the greatest date strictly before session_date; when the
\* current-month document has none, the previous-month document's point
\* with the greatest date strictly before session_date; None when neither
\* has one.  A returned point is never dated session_date or later.
C21_PrevPoint ==
    p_pc = "done" =>
        LET in_cur == EarlierPoints(p_cur, p_ticker, p_session)
            in_prev == EarlierPoints(p_prevdoc, p_ticker, p_session)
        IN  /\ in_cur /= {} => p_out = <<LatestOf(in_cur)>>
            /\ in_cur = {} /\ in_prev /= {} => p_out = <<LatestOf(in_prev)>>
            /\ in_cur = {} /\ in_prev = {} => p_out = <<>>
            /\ p_out /= <<>> => p_out[1].date < p_session

\* C21 witness: the current-month document stores the session's own point
\* but none before it, the previous-month document stores two earlier
\* points, and the call returned the later of those two
C21_Witness ==
    /\ p_pc = "done"
    /\ \E p \in StoredPoints(p_cur, p_ticker) : p.date = p_session
    /\ EarlierPoints(p_cur, p_ticker, p_session) = {}
    /\ Cardinality(EarlierPoints(p_prevdoc, p_ticker, p_session)) = 2
    /\ p_out = <<[date |-> p_session - 1, val |-> "prev"]>>

-----------------------------------------------------------------------------
(* supportresistence main(): the loop body for one ticker.  A bar is        *)
(* [t, c]: the UTC date of its timestamp and its close (an Optional         *)
(* number); h and l are present whenever c is.                             *)

BarCloses == {NoneNum, <<1>>, <<3>>}

\* the bars fetch_daily_bars returns for a ticker: one per trading date of a
\* set of dates, ascending by t
BarLists(dates) ==
    LET RECURSIVE Build(_)
        Build(ds) ==
            IF ds = {} THEN {<<>>}
            ELSE LET d == CHOOSE x \in ds : \A y \in ds : y <= x
                 IN  {Append(s, [t |-> d, c |-> c]) : s \in Build(ds \ {d}), c \in BarCloses}
    IN  UNION {Build(ds) : ds \in SUBSET dates}

\* ref_index = -1, or -2 when there are at least two bars and the last one
\* is dated today (UTC); as a position counted from 1
RefIndex(ticker_bars, today) ==
    IF Len(ticker_bars) >= 2 /\ ticker_bars[Len(ticker_bars)].t = today
    THEN Len(ticker_bars) - 1
    ELSE Len(ticker_bars)

\* _bar_hlc(bar): None when float() of a field fails
bar_hlc_ok(bar) == IsNum(bar.c)

\* closes: float(c) of every bar of bars_for_sma whose c is not None
ClosesOf(bars_for_sma) ==
    LET with_close == SelectSeq(bars_for_sma, LAMBDA b : IsNum(b.c))
    IN  [i \in DOMAIN with_close |-> NumOf(with_close[i].c)]

NoLevels == [status |-> "none", ref |-> <<>>, closes |-> <<>>]

RefIdle ==
    /\ s_pc = "off"
    /\ s_today = 1
    /\ s_bars = <<>>
    /\ s_out = NoLevels

\* end = today: the API returns no bar dated after the day of the request
RefInit ==
    /\ s_pc = "ready"
    /\ s_today \in IsoDates
    /\ s_bars \in BarLists(1 .. s_today)
    /\ s_out = NoLevels

\* if not ticker_bars: errors[ticker] = "No bars returned"; continue
NoBarsReturned ==
    /\ s_pc = "ready"
    /\ s_bars = <<>>
    /\ s_pc' = "done"
    /\ s_out' = [status |-> "No bars returned", ref |-> <<>>, closes |-> <<>>]
    /\ UNCHANGED <<s_today, s_bars>>
    /\ UNCHANGED not_svars

\* if hlc is None: errors[ticker] = "Invalid bar shape (missing h/l/c)"; continue
InvalidBarShape ==
    /\ s_pc = "ready"
    /\ s_bars /= <<>>
    /\ ~bar_hlc_ok(s_bars[RefIndex(s_bars, s_today)])
    /\ s_pc' = "done"
    /\ s_out' = [status |-> "Invalid bar shape", ref |-> <<>>, closes |-> <<>>]
    /\ UNCHANGED <<s_today, s_bars>>
    /\ UNCHANGED not_svars

\* data[ticker] = {...} from ref_bar and the closes of bars_for_sma
EmitLevels ==
    /\ s_pc = "ready"
    /\ s_bars /= <<>>
    /\ LET ref_index == RefIndex(s_bars, s_today)
           ref_bar == s_bars[ref_index]
           bars_for_sma == SubSeq(s_bars, 1, ref_index)
       IN  /\ bar_hlc_ok(ref_bar)
           /\ s_out' = [status |-> "data", ref |-> <<ref_bar>>, closes |-> ClosesOf(bars_for_sma)]
    /\ s_pc' = "done"
    /\ UNCHANGED <<s_today, s_bars>>
    /\ UNCHANGED not_svars

RefNext ==
    \/ NoBarsReturned
    \/ InvalidBarShape
    \/ EmitLevels

-----------------------------------------------------------------------------
(* Properties of the reference bar (SpecRef) *)

\* the completed bars: those dated before today (UTC)
CompletedBars == SelectSeq(s_bars, LAMBDA b : b.t < s_today)

ReferenceIsLastCompleted ==
    /\ CompletedBars /= <<>>
    /\ s_out.ref = <<CompletedBars[Len(CompletedBars)]>>
    /\ s_out.closes = ClosesOf(CompletedBars)

\* C22: for a ticker with at least one returned bar for which levels are
\* emitted, the reference bar is the most recent completed daily bar, never
\* a bar dated today (UTC), and the closes used for the SMAs are the closes
\* of the bars up to and including the reference bar.
C22_ReferenceBarCompleted ==
    (s_pc = "done" /\ s_out.status = "data") =>
        /\ s_out.ref[1].t /= s_today
        /\ ReferenceIsLastCompleted

\* what the code keeps: with two or more bars returned, or with a last bar
\* dated before today, the reference bar is the last completed bar
C22_HoldsWithCompletedBar ==
    (s_pc = "done" /\ s_out.status = "data"
        /\ (Len(s_bars) >= 2 \/ s_bars[Len(s_bars)].t < s_today)) =>
        ReferenceIsLastCompleted

\* the state C22 fails in: the only bar returned is today's, and it is used
C22_OnlyBarIsToday ==
    /\ s_pc = "done" /\ s_out.status = "data"
    /\ Len(s_bars) = 1 /\ s_bars[1].t = s_today
    /\ s_out.ref = <<s_bars[1]>>

-----------------------------------------------------------------------------
(* shared/economy_compute.py: calculate_grade and calculate_trend.  A       *)
(* percentile is a number of hundredths of a point, the grid that           *)
(* calculate_percentile_rank rounds to.                                    *)

\* the percentile value v on the grid of hundredths
Pct(v) == v * 100

Percentiles == Pct(0) .. Pct(100)

Interpretations == {"higher_is_better", "lower_is_better", "neutral"}

Grade(grade, label, color, points) ==
    [grade |-> grade, label |-> label, color |-> color, points |-> points]

NoGrade == Grade("", "", "", 0)

\* faulty variant: the lower_is_better branch uses the higher_is_better bands
calculate_grade_same(percentile, interpretation) ==
    IF percentile >= Pct(90) THEN Grade("A+", "Excellent", "success", 5)
    ELSE IF percentile >= Pct(75) THEN Grade("A", "Very Good", "success", 4)
    ELSE IF percentile >= Pct(50) THEN Grade("B", "Good", "warning", 3)
    ELSE IF percentile >= Pct(25) THEN Grade("C", "Fair", "warning", 2)
    ELSE Grade("D", "Poor", "destructive", 1)

calculate_grade(percentile, interpretation) ==
    IF interpretation = "higher_is_better" THEN
        IF percentile >= Pct(90) THEN Grade("A+", "Excellent", "success", 5)
        ELSE IF percentile >= Pct(75) THEN Grade("A", "Very Good", "success", 4)
        ELSE IF percentile >= Pct(50) THEN Grade("B", "Good", "warning", 3)
        ELSE IF percentile >= Pct(25) THEN Grade("C", "Fair", "warning", 2)
        ELSE Grade("D", "Poor", "destructive", 1)
    ELSE IF interpretation = "lower_is_better" THEN
        IF percentile <= Pct(10) THEN Grade("A+", "Excellent", "success", 5)
        ELSE IF percentile <= Pct(25) THEN Grade("A", "Very Good", "success", 4)
        ELSE IF percentile <= Pct(50) THEN Grade("B", "Good", "warning", 3)
        ELSE IF percentile <= Pct(75) THEN Grade("C", "Fair", "warning", 2)
        ELSE Grade("D", "Poor", "destructive", 1)
    ELSE
        LET distance_from_50 == IF percentile - Pct(50) < 0 THEN Pct(50) - percentile
                                ELSE percentile - Pct(50)
        IN  IF distance_from_50 <= Pct(10) THEN Grade("A+", "Optimal Range", "success", 5)
            ELSE IF distance_from_50 <= Pct(25) THEN Grade("A", "Normal Range", "success", 4)
            ELSE IF distance_from_50 <= Pct(35) THEN Grade("B", "Acceptable", "warning", 3)
            ELSE IF distance_from_50 <= Pct(45) THEN Grade("C", "Concerning", "destructive", 2)
            ELSE Grade("D", "Extreme", "destructive", 1)

\* the default threshold of calculate_trend: 0.01
DefaultThreshold == Rat(1, 100)

\* calculate_trend(current, previous, threshold): pct_change is
\* ((current - previous) / abs(previous)) * 100, and abs(pct_change) is
\* compared with threshold
calculate_trend(current, previous, threshold) ==
    IF ~IsNum(current) \/ ~IsNum(previous) THEN "stable"
    ELSE IF NumOf(previous) = 0 THEN "stable"
    ELSE LET diff == NumOf(current) - NumOf(previous)
             abs_previous == IF NumOf(previous) < 0 THEN -NumOf(previous) ELSE NumOf(previous)
             abs_diff == IF diff < 0 THEN -diff ELSE diff
         IN  IF abs_diff * 100 * threshold.d < threshold.n * abs_previous THEN "stable"
             ELSE IF diff > 0 THEN "improving"
             ELSE "declining"

\* values passed as current and previous
TrendValues ==
    {NoneNum, <<0>>, <<-1000>>, <<-995>>, <<995>>, <<1000>>, <<1005>>, <<1010>>, <<1020>>,
     <<100000>>, <<100001>>}

GradeIdle ==
    /\ g_pc = "off"
    /\ g_p = 0
    /\ g_interp = ""
    /\ g_out = NoGrade
    /\ g_mirror = NoGrade
    /\ g_cur = NoneNum
    /\ g_previous = NoneNum
    /\ g_trend = ""

GradeInit ==
    /\ g_pc = "ready"
    /\ g_p = 0
    /\ g_interp = ""
    /\ g_out = NoGrade
    /\ g_mirror = NoGrade
    /\ g_cur = NoneNum
    /\ g_previous = NoneNum
    /\ g_trend = ""

\* grade = calculate_grade(percentile, indicator.interpretation)
CallCalculateGrade ==
    /\ g_pc = "ready"
    /\ \E percentile \in Percentiles, interpretation \in Interpretations :
        /\ g_p' = percentile
        /\ g_interp' = interpretation
        /\ g_out' = calculate_grade(percentile, interpretation)
    /\ g_pc' = "graded"
    /\ UNCHANGED <<g_mirror, g_cur, g_previous, g_trend>>
    /\ UNCHANGED not_gvars

\* the same percentile counted from the other end, graded as higher_is_better
CallGradeMirrored ==
    /\ g_pc = "graded"
    /\ g_mirror' = calculate_grade(Pct(100) - g_p, "higher_is_better")
    /\ g_pc' = "mirrored"
    /\ UNCHANGED <<g_p, g_interp, g_out, g_cur, g_previous, g_trend>>
    /\ UNCHANGED not_gvars

\* trend = calculate_trend(current_value, previous_value)
CallCalculateTrend ==
    /\ g_pc = "ready"
    /\ \E current \in TrendValues, previous \in TrendValues :
        /\ g_cur' = current
        /\ g_previous' = previous
        /\ g_trend' = calculate_trend(current, previous, DefaultThreshold)
    /\ g_pc' = "trend"
    /\ UNCHANGED <<g_p, g_interp, g_out, g_mirror>>
    /\ UNCHANGED not_gvars

GradeNext ==
    \/ CallCalculateGrade
    \/ CallGradeMirrored
    \/ CallCalculateTrend

-----------------------------------------------------------------------------
(* Properties of calculate_grade and calculate_trend (SpecGrade) *)

Graded == g_pc \in {"graded", "mirrored"}

\* the grade and points documented for a higher_is_better percentile
BandOf(p) ==
    IF p >= Pct(90) THEN <<"A+", 5>>
    ELSE IF p >= Pct(75) THEN <<"A", 4>>
    ELSE IF p >= Pct(50) THEN <<"B", 3>>
    ELSE IF p >= Pct(25) THEN <<"C", 2>>
    ELSE <<"D", 1>>

\* C23: for higher_is_better the grade is A+ iff p >= 90, A iff 75 <= p < 90,
\* B iff 50 <= p < 75, C iff 25 <= p < 50, D iff p < 25, with points 5, 4,
\* 3, 2, 1, so the points do not decrease from one percentile to the next;
\* and calculate_grade(p, lower_is_better) equals
\* calculate_grade(100 - p, higher_is_better).
C23_GradeBands ==
    /\ (Graded /\ g_interp = "higher_is_better") =>
        /\ g_out.grade = "A+" <=> g_p >= Pct(90)
        /\ g_out.grade = "A" <=> (Pct(75) <= g_p /\ g_p < Pct(90))
        /\ g_out.grade = "B" <=> (Pct(50) <= g_p /\ g_p < Pct(75))
        /\ g_out.grade = "C" <=> (Pct(25) <= g_p /\ g_p < Pct(50))
        /\ g_out.grade = "D" <=> g_p < Pct(25)
        /\ <<g_out.grade, g_out.points>> = BandOf(g_p)
        /\ g_p > 0 => calculate_grade(g_p - 1, "higher_is_better").points <= g_out.points
    /\ (g_pc = "mirrored" /\ g_interp = "lower_is_better") => g_out = g_mirror

\* C23 witness: the 10th percentile of a lower_is_better indicator is graded
\* A+ like the 90th percentile of a higher_is_better one
C23_Witness ==
    /\ g_pc = "mirrored" /\ g_interp = "lower_is_better"
    /\ g_p = Pct(10)
    /\ g_out.grade = "A+" /\ g_mirror.grade = "A+"

\* the change from previous to current, against 1% of |previous|
ChangeBelowOnePercent ==
    LET diff == NumOf(g_cur) - NumOf(g_previous)
    IN  Abs(diff) * 100 < Abs(NumOf(g_previous))

\* C24: with the default threshold calculate_trend reports "stable" whenever
\* a value is missing, previous is 0, or the change is smaller in magnitude
\* than 1% of |previous|; otherwise "improving" when current > previous and
\* "declining" when current < previous.
C24_TrendOnePercent ==
    g_pc = "trend" =>
        IF ~IsNum(g_cur) \/ ~IsNum(g_previous) THEN g_trend = "stable"
        ELSE IF NumOf(g_previous) = 0 \/ ChangeBelowOnePercent THEN g_trend = "stable"
        ELSE IF NumOf(g_cur) > NumOf(g_previous) THEN g_trend = "improving"
        ELSE g_trend = "declining"

\* what the code keeps: the same with 0.01% of |previous| as the threshold
C24_CodeThreshold ==
    g_pc = "trend" =>
        IF ~IsNum(g_cur) \/ ~IsNum(g_previous) THEN g_trend = "stable"
        ELSE IF NumOf(g_previous) = 0
                \/ Abs(NumOf(g_cur) - NumOf(g_previous)) * 10000 < Abs(NumOf(g_previous))
             THEN g_trend = "stable"
        ELSE IF NumOf(g_cur) > NumOf(g_previous) THEN g_trend = "improving"
        ELSE g_trend = "declining"

\* the state C24 fails in: a rise of 0.5% is reported as improving
C24_HalfPercentImproving ==
    /\ g_pc = "trend"
    /\ g_previous = <<1000>> /\ g_cur = <<1005>>
    /\ g_trend = "improving"

-----------------------------------------------------------------------------
(* stockwhales/utils.py: is_whale_trade and find_optimal_threshold.  A      *)
(* trade is [id, shares, value], id being its place in the input list.      *)

\* shares >= min_shares * multiplier or value >= min_value * multiplier
is_whale_trade(shares, value, min_shares, min_value, multiplier) ==
    shares >= min_shares * multiplier \/ value >= min_value * multiplier

\* [t for t in trades if t.get('shares', 0) >= adjusted_shares or ...]
TierTrades(trades, tier, multiplier) ==
    SelectSeq(trades, LAMBDA t :
        t.shares >= tier.shares * multiplier \/ t.value >= tier.value * multiplier)

\* the for loop: position of the tier it ends on (the first tier with at
\* most target_max trades, else the last tier)
RECURSIVE TierLoop(_, _, _, _, _)
TierLoop(trades, tiers, i, target_max, multiplier) ==
    IF Len(TierTrades(trades, tiers[i], multiplier)) <= target_max THEN i
    ELSE IF i = Len(tiers) THEN i
    ELSE TierLoop(trades, tiers, i + 1, target_max, multiplier)

\* sorted(..., key=value, reverse=True): stable, equal values keep their order
RECURSIVE InsertByValueDesc(_, _)
InsertByValueDesc(s, x) ==
    IF s = <<>> THEN <<x>>
    ELSE IF s[Len(s)].value >= x.value THEN Append(s, x)
    ELSE Append(InsertByValueDesc(SubSeq(s, 1, Len(s) - 1), x), s[Len(s)])

RECURSIVE SortByValueDesc(_)
SortByValueDesc(s) ==
    IF s = <<>> THEN <<>>
    ELSE InsertByValueDesc(SortByValueDesc(SubSeq(s, 1, Len(s) - 1)), s[Len(s)])

\* s[:n], for n of either sign
PrefixSlice(s, n) ==
    IF n >= Len(s) THEN s
    ELSE IF n >= 0 THEN SubSeq(s, 1, n)
    ELSE IF Len(s) + n > 0 THEN SubSeq(s, 1, Len(s) + n)
    ELSE <<>>

\* faulty variant: the loop never breaks and ends on the last tier
find_optimal_threshold_nobreak(trades, tiers, target_max, hard_max, multiplier) ==
    LET effective_tier == tiers[Len(tiers)]
        filtered_trades == TierTrades(trades, effective_tier, multiplier)
    IN  [tier |-> effective_tier,
         trades |-> IF Len(filtered_trades) > hard_max
                    THEN PrefixSlice(SortByValueDesc(filtered_trades), hard_max)
                    ELSE filtered_trades]

find_optimal_threshold(trades, tiers, target_max, hard_max, multiplier) ==
    LET effective_tier == tiers[TierLoop(trades, tiers, 1, target_max, multiplier)]
        filtered_trades == TierTrades(trades, effective_tier, multiplier)
    IN  [tier |-> effective_tier,
         trades |-> IF Len(filtered_trades) > hard_max
                    THEN PrefixSlice(SortByValueDesc(filtered_trades), hard_max)
                    ELSE filtered_trades]

\* shares and value of a trade, and the tier table from lowest to highest
TradeSizes == {<<1, 10>>, <<5, 10>>, <<1, 50>>, <<9, 60>>}

TradeLists ==
    UNION {{[i \in 1 .. n |-> [id |-> i, shares |-> f[i][1], value |-> f[i][2]]] :
                f \in [1 .. n -> TradeSizes]} : n \in 0 .. MaxTrades}

TierTable == <<[shares |-> 2, value |-> 20], [shares |-> 5, value |-> 50],
               [shares |-> 9, value |-> 90]>>

\* the non-empty tier lists: the table from one of its tiers to another
TierLists ==
    {SubSeq(TierTable, a, b) : a \in DOMAIN TierTable, b \in DOMAIN TierTable} \ {<<>>}

WhaleLimits == [target_max : 0 .. 2, hard_max : -1 .. 2, multiplier : {1, 2}]

NoTier == [shares |-> 0, value |-> 0]

WhaleIdle ==
    /\ w_pc = "off"
    /\ w_trades = <<>>
    /\ w_tiers = <<>>
    /\ w_limits = [target_max |-> 0, hard_max |-> 0, multiplier |-> 1]
    /\ w_out = [tier |-> NoTier, trades |-> <<>>]

WhaleInit ==
    /\ w_pc = "ready"
    /\ w_trades \in TradeLists
    /\ w_tiers \in TierLists
    /\ w_limits \in WhaleLimits
    /\ w_out = [tier |-> NoTier, trades |-> <<>>]

CallFindOptimalThreshold ==
    /\ w_pc = "ready"
    /\ w_pc' = "done"
    /\ w_out' = find_optimal_threshold(w_trades, w_tiers, w_limits.target_max,
                                       w_limits.hard_max, w_limits.multiplier)
    /\ UNCHANGED <<w_trades, w_tiers, w_limits>>
    /\ UNCHANGED not_wvars

WhaleNext == CallFindOptimalThreshold

-----------------------------------------------------------------------------
(* Properties of find_optimal_threshold (SpecWhale) *)

\* the trades of the call that qualify at a tier
QualifyingAt(tier) ==
    {t \in SetOf(w_trades) :
        is_whale_trade(t.shares, t.value, tier.shares, tier.value, w_limits.multiplier)}

TierAchieves(i) == Cardinality(QualifyingAt(w_tiers[i])) <= w_limits.target_max

\* the tier the statement names
StatedTier ==
    IF \E i \in DOMAIN w_tiers : TierAchieves(i)
    THEN w_tiers[CHOOSE i \in DOMAIN w_tiers :
                     TierAchieves(i) /\ \A j \in 1 .. i - 1 : ~TierAchieves(j)]
    ELSE w_tiers[Len(w_tiers)]

ReturnedTrades == SetOf(w_out.trades)

TierAndTradesAsStated ==
    /\ w_out.tier = StatedTier
    /\ ReturnedTrades \subseteq QualifyingAt(w_out.tier)
    /\ Cardinality(ReturnedTrades) = Len(w_out.trades)

CapAsStated ==
    /\ Len(w_out.trades) <= w_limits.hard_max
    /\ Cardinality(QualifyingAt(w_out.tier)) <= w_limits.hard_max =>
           ReturnedTrades = QualifyingAt(w_out.tier)
    /\ Cardinality(QualifyingAt(w_out.tier)) > w_limits.hard_max =>
           /\ Len(w_out.trades) = w_limits.hard_max
           /\ \A t \in ReturnedTrades, u \in QualifyingAt(w_out.tier) \ ReturnedTrades :
                  t.value >= u.value

-----------------------------------------------------------------------------
(* stockwhales/utils.py: RateLimiter.wait_if_needed.  The clock counts      *)
(* ticks; the 60 seconds of the limiter are Window ticks and the 0.1        *)
(* second added to a wait is Slack, one tick.  Calls come one after the     *)
(* other (the scripts are single-threaded), any time apart.                 *)

Window == 3
Slack == 1

\* [t for t in self.request_times if now - t < 60]
PruneOld(request_times, now) == SelectSeq(request_times, LAMBDA t : now - t < Window)

\* min(self.request_times)
Oldest(request_times) ==
    CHOOSE t \in SetOf(request_times) : \A u \in SetOf(request_times) : t <= u

\* faulty variant: no wait at the limit
WaitTime_none(request_times, now) == 0

\* wait_time = 60 - (now - oldest) + 0.1
WaitTime(request_times, now) == Window - (now - Oldest(request_times)) + Slack

LimiterIdle ==
    /\ l_max = 1
    /\ l_clock = 0
    /\ l_pc = "off"
    /\ l_times = <<>>
    /\ l_wake = 0
    /\ l_hist = <<>>

\* RateLimiter(max_per_minute): request_times = []
LimiterInit ==
    /\ l_max \in 1 .. MaxPerMinute
    /\ l_clock = 0
    /\ l_pc = "idle"
    /\ l_times = <<>>
    /\ l_wake = 0
    /\ l_hist = <<>>

\* time passes, between calls and within one
Tick ==
    /\ l_pc /= "off"
    /\ l_clock < MaxTime
    /\ l_clock' = l_clock + 1
    /\ UNCHANGED <<l_max, l_pc, l_times, l_wake, l_hist>>
    /\ UNCHANGED not_lvars

\* a call may begin while the clock leaves room for its longest wait
MayBegin ==
    /\ l_pc = "idle"
    /\ Len(l_hist) < MaxRequests
    /\ l_clock + Window + Slack <= MaxTime

\* now = time.time(); prune; fewer than max_per_minute requests are left
EnterBelowLimit ==
    /\ MayBegin
    /\ Len(PruneOld(l_times, l_clock)) < l_max
    /\ l_times' = PruneOld(l_times, l_clock)
    /\ l_pc' = "entered"
    /\ UNCHANGED <<l_max, l_clock, l_wake, l_hist>>
    /\ UNCHANGED not_lvars

\* now = time.time(); prune; at the limit: time.sleep(wait_time) if wait_time > 0
EnterAtLimit ==
    /\ MayBegin
    /\ LET now == l_clock
           kept == PruneOld(l_times, now)
       IN  /\ Len(kept) >= l_max
           /\ l_times' = kept
           /\ IF WaitTime(kept, now) > 0
              THEN l_pc' = "sleeping" /\ l_wake' = now + WaitTime(kept, now)
              ELSE l_pc' = "entered" /\ l_wake' = l_wake
    /\ UNCHANGED <<l_max, l_clock, l_hist>>
    /\ UNCHANGED not_lvars

\* self.request_times.append(time.time()), after the sleep if there was one
RecordRequest ==
    /\ \/ l_pc = "entered"
       \/ l_pc = "sleeping" /\ l_clock >= l_wake
    /\ l_times' = Append(l_times, l_clock)
    /\ l_hist' = Append(l_hist, l_clock)
    /\ l_pc' = "idle"
    /\ UNCHANGED <<l_max, l_clock, l_wake>>
    /\ UNCHANGED not_lvars

LimiterNext ==
    \/ Tick
    \/ EnterBelowLimit
    \/ EnterAtLimit
    \/ RecordRequest

-----------------------------------------------------------------------------
(* Properties of the rate limiter (SpecLimiter) *)

\* the requests recorded in the window of Window ticks that ends at time t
InWindow(t) == {i \in DOMAIN l_hist : t - Window < l_hist[i] /\ l_hist[i] <= t}

WindowsWithinLimit ==
    \A i \in DOMAIN l_hist : Cardinality(InWindow(l_hist[i])) <= l_max

InCall == l_pc \in {"entered", "sleeping"}

\* C26: whatever the times of the wait_if_needed calls, no 60-second window
\* contains more than max_per_minute recorded requests, and every call
\* records its request and returns.
C26_RateLimit ==
    /\ []WindowsWithinLimit
    /\ InCall ~> (l_pc = "idle")

\* C26 witness: a call found the limiter at its limit, slept until the
\* oldest request left the window and recorded its request then
C26_Witness ==
    /\ l_pc = "idle"
    /\ l_max = 2
    /\ Len(l_hist) = 3
    /\ l_hist[2] - l_hist[1] < Window
    /\ l_hist[3] = l_hist[1] + Window + Slack
    /\ l_hist[3] = l_wake

-----------------------------------------------------------------------------
(* etffundflows main() with aggregates enabled: the per-ticker month file   *)
(* and the aggregate month file of one group key (asset_class), across      *)
(* runs.  A point carries the fields aggregate_points reads.                *)

\* asset_class of a universe row, and the point the loop builds for it
AssetClassOf(t) == "Equity"

SessionPoint(t, session_date) ==
    IF t = "SPY"
    THEN [date |-> session_date, label |-> AssetClassOf(t),
          aum |-> <<2>>, flow_nav |-> <<1>>, flow_close |-> NoneNum]
    ELSE [date |-> session_date, label |-> AssetClassOf(t),
          aum |-> <<3>>, flow_nav |-> <<-1>>, flow_close |-> <<0>>]

\* universe_rows, in the order of the universe file
UniverseRows(universe) ==
    SelectSeq(<<"SPY", "QQQ">>, LAMBDA t : t \in universe)

\* all_points_for_agg after the ticker loop
AllPointsForAgg(universe, session_date) ==
    LET rows == UniverseRows(universe)
    IN  [i \in DOMAIN rows |-> SessionPoint(rows[i], session_date)]

\* cur_doc after the ticker loop: each ticker of the run gets its point
ConsMonthDocument(cur_doc, universe, session_date) ==
    [exists |-> TRUE,
     data |-> [t \in EtfTickers |->
                  IF t \in universe
                  THEN [present |-> TRUE,
                        daily |-> upsert_daily_point(cur_doc.data[t].daily,
                                                     SessionPoint(t, session_date))]
                  ELSE cur_doc.data[t]]]

\* write_agg: groups of this session date from all_points_for_agg, upserted
\* into the daily list of the existing aggregate file
write_agg(existing_daily, all_points_for_agg, session_date) ==
    LET groups == IF all_points_for_agg /= <<>>
                  THEN aggregate_points(all_points_for_agg)[1].groups
                  ELSE <<>>
    IN  upsert_agg_daily(existing_daily, session_date, groups)

ConsIdle ==
    /\ x_files = [m \in MonthKeys |-> NoMonthDoc]
    /\ x_agg = [m \in MonthKeys |-> <<>>]
    /\ x_last = [d \in IsoDates |-> {}]

\* an output directory without month files
ConsInit == ConsIdle

\* one run: a session date and the tickers selected (--tickers, --limit)
EtfRunWithAggregates ==
    /\ \E session_dt \in IsoDates, universe \in SUBSET EtfTickers :
        /\ universe /= {}
        /\ LET mkey == month_key(session_dt)
           IN  /\ x_files' = [x_files EXCEPT ![mkey] =
                                 ConsMonthDocument(read_monthly_json(x_files, mkey),
                                                   universe, session_dt)]
               /\ x_agg' = [x_agg EXCEPT ![mkey] =
                               write_agg(x_agg[mkey], AllPointsForAgg(universe, session_dt),
                                         session_dt)]
        /\ x_last' = [x_last EXCEPT ![session_dt] = universe]
    /\ UNCHANGED not_xvars

ConsNext == EtfRunWithAggregates

-----------------------------------------------------------------------------
(* Properties of the aggregate files (SpecCons) *)

\* the per-ticker points of date d and label l stored in month file m, for
\* the tickers of T
StoredFor(m, d, l, T) ==
    {p \in UNION {SetOf(x_files[m].data[t].daily) : t \in T} : p.date = d /\ p.label = l}

RECURSIVE SumOfPoints(_, _)
SumOfPoints(S, field) ==
    IF S = {} THEN 0
    ELSE LET p == CHOOSE q \in S : TRUE
         IN  NumOf(p[field]) + SumOfPoints(S \ {p}, field)

TotalOf(S, field) ==
    LET with == {p \in S : IsNum(p[field])}
    IN  IF with = {} THEN NoneNum ELSE <<SumOfPoints(with, field)>>

\* the groups of an aggregate entry are the count and totals of the points S(l)
GroupsMatch(groups, m, d, T) ==
    \A l \in {"Equity", "Unknown"} :
        LET S == StoredFor(m, d, l, T)
        IN  IF S = {} THEN l \notin DOMAIN groups
            ELSE /\ l \in DOMAIN groups
                 /\ groups[l].tickers = Cardinality(S)
                 /\ \A field \in AggFields : groups[l][field] = TotalOf(S, field)

\* C27: after any sequence of runs, for every date of an aggregate month
\* file and every group label, the group's ticker count and its aum,
\* flow_nav and flow_close totals are the count and the sums over all
\* per-ticker points of that date and label stored in the per-ticker file.
C27_AggregateConsistent ==
    \A m \in MonthKeys : \A k \in DOMAIN x_agg[m] :
        GroupsMatch(x_agg[m][k].val, m, x_agg[m][k].date, EtfTickers)

\* what the code keeps: the groups of a date cover the stored points of the
\* tickers of the latest run for that date, and no others
C27_LatestSelectionOnly ==
    \A m \in MonthKeys : \A k \in DOMAIN x_agg[m] :
        GroupsMatch(x_agg[m][k].val, m, x_agg[m][k].date, x_last[x_agg[m][k].date])

\* the state C27 fails in: a date was run for both tickers and again for
\* one; the per-ticker file holds both points, the aggregate counts one
C27_StaleTickerLeftOut ==
    /\ x_last[1] = {"SPY"}
    /\ Cardinality(StoredFor(month_key(1), 1, "Equity", EtfTickers)) = 2
    /\ x_agg[month_key(1)][1].date = 1
    /\ x_agg[month_key(1)][1].val["Equity"].tickers = 1

-----------------------------------------------------------------------------
(* supportresistence: AlpacaBarsClient._request, which calls itself after   *)
(* a 429 answer, and the paging loop of fetch_daily_bars.  An answer is a   *)
(* status code, or "exception" for a RequestException.  The interpreter     *)
(* raises RecursionError when the calls are nested MaxDepth deep.           *)

StatusCodes == {"200", "429", "500", "exception"}

\* nesting depth of the _request frame that is waiting for an answer
Depth(codes) == Len(codes) + 1

\* what the frame does with an answer
AfterAnswer(code) ==
    IF code = "200" THEN "payload"
    ELSE IF code = "429" THEN "retry"
    ELSE "None"

ReqIdle ==
    /\ q_pc = "off"
    /\ q_pages = 0
    /\ q_token = FALSE
    /\ q_codes = <<>>
    /\ q_result = ""

\* all_bars = {...}; page_token = None
ReqInit ==
    /\ q_pc = "loop"
    /\ q_pages = 0
    /\ q_token = FALSE
    /\ q_codes = <<>>
    /\ q_result = ""

\* while True: payload = client._request("/v2/stocks/bars", params)
StartRequest ==
    /\ q_pc = "loop"
    /\ q_pc' = "requesting"
    /\ q_codes' = <<>>
    /\ q_result' = ""
    /\ UNCHANGED <<q_pages, q_token>>
    /\ UNCHANGED not_qvars

\* status 200: return response.json(), with a next_page_token or without
Answer200 ==
    /\ q_pc = "requesting"
    /\ q_codes' = Append(q_codes, "200")
    /\ q_result' = AfterAnswer("200")
    /\ q_pc' = "returned"
    /\ q_pages' = q_pages + 1
    /\ \E next_page_token \in BOOLEAN :
        /\ next_page_token => q_pages + 1 < MaxPages
        /\ q_token' = next_page_token
    /\ UNCHANGED not_qvars

\* status 429: time.sleep(5); return self._request(endpoint, params)
Answer429 ==
    /\ q_pc = "requesting"
    /\ AfterAnswer("429") = "retry"
    /\ Depth(q_codes) < MaxDepth
    /\ q_codes' = Append(q_codes, "429")
    /\ UNCHANGED <<q_pc, q_pages, q_token, q_result>>
    /\ UNCHANGED not_qvars

\* status 429 in the deepest frame the interpreter allows: the nested call
\* raises RecursionError, which no frame catches
Answer429AtRecursionLimit ==
    /\ q_pc = "requesting"
    /\ AfterAnswer("429") = "retry"
    /\ Depth(q_codes) = MaxDepth
    /\ q_codes' = Append(q_codes, "429")
    /\ q_result' = "RecursionError"
    /\ q_pc' = "raised"
    /\ UNCHANGED <<q_pages, q_token>>
    /\ UNCHANGED not_qvars

\* another status, or a RequestException: return None
AnswerError ==
    /\ q_pc = "requesting"
    /\ \E code \in StatusCodes \ {"200", "429"} :
        /\ q_codes' = Append(q_codes, code)
        /\ q_result' = AfterAnswer(code)
    /\ q_pc' = "returned"
    /\ UNCHANGED <<q_pages, q_token>>
    /\ UNCHANGED not_qvars

\* if not payload: break / page_token = payload.get("next_page_token"); if
\* not page_token: break
LoopBreak ==
    /\ q_pc = "returned"
    /\ q_result = "None" \/ ~q_token
    /\ q_pc' = "done"
    /\ UNCHANGED <<q_pages, q_token, q_codes, q_result>>
    /\ UNCHANGED not_qvars

\* the payload had a next_page_token: the loop goes on
LoopAgain ==
    /\ q_pc = "returned"
    /\ q_result = "payload" /\ q_token
    /\ q_pc' = "loop"
    /\ UNCHANGED <<q_pages, q_token, q_codes, q_result>>
    /\ UNCHANGED not_qvars

ReqNext ==
    \/ StartRequest
    \/ Answer200
    \/ Answer429
    \/ Answer429AtRecursionLimit
    \/ AnswerError
    \/ LoopBreak
    \/ LoopAgain

-----------------------------------------------------------------------------
(* Properties of the Alpaca requests (SpecReq) *)

RateLimitAnswers == Cardinality({i \in DOMAIN q_codes : q_codes[i] = "429"})

\* C28: every _request call ends after a bounded number of HTTP attempts by
\* returning a payload or None, whatever the server answers: a rate-limit
\* answer is not retried without bound, and the call never ends otherwise.
C28_RequestReturns ==
    /\ q_pc \in {"returned", "raised", "done"} => q_result \in {"payload", "None"}
    /\ q_pc /= "raised"

\* what the code keeps: one further attempt for every 429 answer, as many as
\* the server gives; a call that ends by returning ends on its first answer
\* other than 429, and fetch_daily_bars stops on None or a missing token
C28_RetryPerRateLimitAnswer ==
    /\ q_pc = "requesting" => RateLimitAnswers = Len(q_codes)
    /\ q_pc \in {"returned", "done"} =>
        /\ RateLimitAnswers = Len(q_codes) - 1
        /\ q_codes[Len(q_codes)] /= "429"
        /\ q_result \in {"payload", "None"}
    /\ q_pc = "done" => (q_result = "None" \/ ~q_token)

\* the state C28 fails in: the server answered 429 to every attempt
C28_RateLimitedForever ==
    /\ q_pc = "raised"
    /\ q_result = "RecursionError"
    /\ Len(q_codes) = MaxDepth
    /\ RateLimitAnswers = MaxDepth

-----------------------------------------------------------------------------
(* growthoutput: export_growth_output_json, the loop body for one           *)
(* indicator.  Observations are whole thousandths; the emitted value is a   *)
(* whole number of hundredths.                                             *)

\* observations: NaN, -0.016, 0.0, 0.004, 0.026
Observations == {NoneNum, <<-16>>, <<0>>, <<4>>, <<26>>}

\* round(current_value, 2) if current_value else None
CurrentValueField(current_value) ==
    IF current_value /= 0 THEN <<RoundDiv(current_value, 10)>> ELSE NoneNum

NoEntry == [emitted |-> FALSE, value |-> NoneNum, percentile |-> NoneNum, grade |-> NoGrade]

\* the entry of the indicator, or none when df_clean is empty
IndicatorEntry(values, interpretation) ==
    LET df_clean == DropNa(values)
    IN  IF df_clean = <<>> THEN NoEntry
        ELSE LET current_value == df_clean[Len(df_clean)]
                 percentile == calculate_percentile_rank(
                                   [i \in DOMAIN df_clean |-> <<df_clean[i]>>], <<current_value>>)
             IN  [emitted |-> TRUE,
                  value |-> CurrentValueField(current_value),
                  percentile |-> percentile,
                  grade |-> calculate_grade(percentile[1].n, interpretation)]

GrowIdle ==
    /\ o_pc = "off"
    /\ o_series = <<>>
    /\ o_interp = ""
    /\ o_entry = NoEntry

GrowInit ==
    /\ o_pc = "ready"
    /\ o_series \in SeqsUpTo(Observations, MaxSeries)
    /\ o_interp \in Interpretations
    /\ o_entry = NoEntry

\* if series_id not in indicator_data or indicator_data[series_id].empty, or
\* df_clean.empty: continue
SkipIndicator ==
    /\ o_pc = "ready"
    /\ DropNa(o_series) = <<>>
    /\ o_pc' = "done"
    /\ o_entry' = NoEntry
    /\ UNCHANGED <<o_series, o_interp>>
    /\ UNCHANGED not_ovars

\* json_data["current"]["indicators"][series_id] = {...}
EmitIndicator ==
    /\ o_pc = "ready"
    /\ DropNa(o_series) /= <<>>
    /\ o_pc' = "done"
    /\ o_entry' = IndicatorEntry(o_series, o_interp)
    /\ UNCHANGED <<o_series, o_interp>>
    /\ UNCHANGED not_ovars

GrowNext ==
    \/ SkipIndicator
    \/ EmitIndicator

-----------------------------------------------------------------------------
(* Properties of the growth output (SpecGrow) *)

HasObservation == \E i \in DOMAIN o_series : IsNum(o_series[i])

LatestObservation ==
    LET last == CHOOSE i \in DOMAIN o_series :
                    IsNum(o_series[i]) /\ \A j \in DOMAIN o_series : j > i => ~IsNum(o_series[j])
    IN  NumOf(o_series[last])

\* C29: an indicator with at least one non-null observation is emitted with
\* a non-null value, its latest non-null observation rounded to two
\* decimals, whatever that observation is (0 and negative values included);
\* a null value is never emitted next to a computed percentile and grade.
C29_ValueEmitted ==
    (o_pc = "done" /\ HasObservation) =>
        /\ o_entry.emitted
        /\ IsNum(o_entry.value)
        /\ NumOf(o_entry.value) = RoundDiv(LatestObservation, 10)
        /\ IsNum(o_entry.percentile)

\* what the code keeps: the same for every latest observation other than 0
C29_HoldsForNonZero ==
    (o_pc = "done" /\ HasObservation /\ LatestObservation /= 0) =>
        /\ o_entry.emitted
        /\ o_entry.value = <<RoundDiv(LatestObservation, 10)>>
        /\ IsNum(o_entry.percentile)

\* the state C29 fails in: the latest observation is 0.0 and the entry has a
\* null value next to a percentile and a grade
C29_ZeroEmittedAsNull ==
    /\ o_pc = "done"
    /\ o_series = <<(<<-16>>), (<<0>>)>>
    /\ o_entry.emitted
    /\ o_entry.value = NoneNum
    /\ o_entry.percentile = <<Rat(5000, 100)>>
    /\ o_entry.grade.grade /= ""

-----------------------------------------------------------------------------
(* sp100growth extract_company_data: revenue_yoy = relabel_yoy(             *)
(* calculate_yoy_growth(revenues), annual_data).  A fiscal_year_end is      *)
(* [year, part]: its first four characters and the rest of the date.        *)

FiscalYearEnds == [year : 1 .. MaxFiscalYears, part : {1, 2}]

\* sorted(all_ends, reverse=True): later dates first
Later(a, b) == a.year > b.year \/ (a.year = b.year /\ a.part > b.part)

RECURSIVE NewestFirst(_)
NewestFirst(ends) ==
    IF ends = {} THEN <<>>
    ELSE LET e == CHOOSE x \in ends : \A z \in ends \ {x} : Later(x, z)
         IN  <<e>> \o NewestFirst(ends \ {e})

Revenues == {NoneNum, <<2>>, <<3>>}

\* annual_data: one record per distinct end date, newest first
AnnualData ==
    UNION {{[i \in DOMAIN NewestFirst(ends) |->
                [fiscal_year_end |-> NewestFirst(ends)[i], revenue |-> rev[i]]] :
                rev \in [1 .. Cardinality(ends) -> Revenues]} :
           ends \in SUBSET FiscalYearEnds}

\* records[i].fiscal_year_end[:4]
YearOf(record) == record.fiscal_year_end.year

\* relabel_yoy: for i, (key, val) in enumerate(yoy_dict.items()):
\* result[records[i].fiscal_year_end[:4]] = val
RECURSIVE relabel_yoy(_, _, _, _)
relabel_yoy(yoy, records, i, result) ==
    IF i > Len(yoy) THEN result
    ELSE IF i <= Len(records)
    THEN LET year == YearOf(records[i])
         IN  relabel_yoy(yoy, records, i + 1,
                         [k \in DOMAIN result \cup {year} |->
                             IF k = year THEN yoy[i] ELSE result[k]])
    ELSE relabel_yoy(yoy, records, i + 1, result)

\* revenues = [a.revenue for a in annual_data]; calculate_yoy_growth; relabel
RevenueYoy(annual_data) ==
    LET revenues == [i \in DOMAIN annual_data |-> annual_data[i].revenue]
    IN  relabel_yoy(calculate_yoy_growth(revenues), annual_data, 1, <<>>)

YoyIdle ==
    /\ y_pc = "off"
    /\ y_annual = <<>>
    /\ y_out = <<>>

YoyInit ==
    /\ y_pc = "ready"
    /\ y_annual \in AnnualData
    /\ y_out = <<>>

ComputeRevenueYoy ==
    /\ y_pc = "ready"
    /\ y_pc' = "done"
    /\ y_out' = RevenueYoy(y_annual)
    /\ UNCHANGED y_annual
    /\ UNCHANGED not_yvars

YoyNext == ComputeRevenueYoy

-----------------------------------------------------------------------------
(* Properties of the year-over-year maps (SpecYoy) *)

\* the pairs of consecutive annual records, by the place of the newer one
YoyPairs == 1 .. Len(y_annual) - 1

PairGrowth(i) == YoyEntry(y_annual[i].revenue, y_annual[i + 1].revenue)

EntryOfEveryPair ==
    /\ Cardinality(DOMAIN y_out) = Cardinality(YoyPairs)
    /\ \A i \in YoyPairs :
        /\ YearOf(y_annual[i]) \in DOMAIN y_out
        /\ y_out[YearOf(y_annual[i])] = PairGrowth(i)

\* C30: the emitted map has exactly one entry for each pair of consecutive
\* annual records, keyed by the fiscal year of the more recent record of the
\* pair and holding the growth of that record over the next; no value is
\* lost or overwritten, whatever the distinct fiscal_year_end dates are.
C30_YoyEntryPerPair ==
    y_pc = "done" => EntryOfEveryPair

\* what the code keeps: the same when the more recent records of the pairs
\* end in different calendar years
C30_HoldsForDistinctYears ==
    (y_pc = "done"
        /\ \A i, j \in YoyPairs : i /= j => YearOf(y_annual[i]) /= YearOf(y_annual[j])) =>
        EntryOfEveryPair

\* the state C30 fails in: two fiscal years ended in the same calendar year
\* and the growth of the later one was overwritten by that of the earlier
C30_YearCollision ==
    /\ y_pc = "done"
    /\ Len(y_annual) = 3
    /\ YearOf(y_annual[1]) = YearOf(y_annual[2])
    /\ PairGrowth(1) /= PairGrowth(2)
    /\ Cardinality(DOMAIN y_out) = 1
    /\ y_out[YearOf(y_annual[1])] = PairGrowth(2)

-----------------------------------------------------------------------------
(* Specifications *)

InitUpsert == UpsertInit /\ NewsIdle /\ TickerIdle /\ FetchIdle /\ AggIdle /\ MetricIdle /\ CalcIdle /\ RunIdle /\ MonthIdle /\ ConcIdle /\ DedupeIdle /\ PrevIdle /\ RefIdle /\ GradeIdle /\ WhaleIdle /\ LimiterIdle /\ ConsIdle /\ ReqIdle /\ GrowIdle /\ YoyIdle
SpecUpsert == InitUpsert /\ [][UpsertNext]_vars

InitNews == NewsInit /\ UpsertIdle /\ TickerIdle /\ FetchIdle /\ AggIdle /\ MetricIdle /\ CalcIdle /\ RunIdle /\ MonthIdle /\ ConcIdle /\ DedupeIdle /\ PrevIdle /\ RefIdle /\ GradeIdle /\ WhaleIdle /\ LimiterIdle /\ ConsIdle /\ ReqIdle /\ GrowIdle /\ YoyIdle
SpecNews == InitNews /\ [][NewsNext]_vars

InitTicker == TickerInit /\ UpsertIdle /\ NewsIdle /\ FetchIdle /\ AggIdle /\ MetricIdle /\ CalcIdle /\ RunIdle /\ MonthIdle /\ ConcIdle /\ DedupeIdle /\ PrevIdle /\ RefIdle /\ GradeIdle /\ WhaleIdle /\ LimiterIdle /\ ConsIdle /\ ReqIdle /\ GrowIdle /\ YoyIdle
SpecTicker == InitTicker /\ [][TickerNext]_vars

InitFetch == FetchInit /\ UpsertIdle /\ NewsIdle /\ TickerIdle /\ AggIdle /\ MetricIdle /\ CalcIdle /\ RunIdle /\ MonthIdle /\ ConcIdle /\ DedupeIdle /\ PrevIdle /\ RefIdle /\ GradeIdle /\ WhaleIdle /\ LimiterIdle /\ ConsIdle /\ ReqIdle /\ GrowIdle /\ YoyIdle
SpecFetch == InitFetch /\ [][FetchNext]_vars

InitAgg == AggInit /\ UpsertIdle /\ NewsIdle /\ TickerIdle /\ FetchIdle /\ MetricIdle /\ CalcIdle /\ RunIdle /\ MonthIdle /\ ConcIdle /\ DedupeIdle /\ PrevIdle /\ RefIdle /\ GradeIdle /\ WhaleIdle /\ LimiterIdle /\ ConsIdle /\ ReqIdle /\ GrowIdle /\ YoyIdle
SpecAgg == InitAgg /\ [][AggNext]_vars

InitMetric == MetricInit /\ UpsertIdle /\ NewsIdle /\ TickerIdle /\ FetchIdle /\ AggIdle /\ CalcIdle /\ RunIdle /\ MonthIdle /\ ConcIdle /\ DedupeIdle /\ PrevIdle /\ RefIdle /\ GradeIdle /\ WhaleIdle /\ LimiterIdle /\ ConsIdle /\ ReqIdle /\ GrowIdle /\ YoyIdle
SpecMetric == InitMetric /\ [][MetricNext]_vars

InitCalc == CalcInit /\ UpsertIdle /\ NewsIdle /\ TickerIdle /\ FetchIdle /\ AggIdle /\ MetricIdle /\ RunIdle /\ MonthIdle /\ ConcIdle /\ DedupeIdle /\ PrevIdle /\ RefIdle /\ GradeIdle /\ WhaleIdle /\ LimiterIdle /\ ConsIdle /\ ReqIdle /\ GrowIdle /\ YoyIdle
SpecCalc == InitCalc /\ [][CalcNext]_vars

InitRun == RunInit /\ UpsertIdle /\ NewsIdle /\ TickerIdle /\ FetchIdle /\ AggIdle /\ MetricIdle /\ CalcIdle /\ MonthIdle /\ ConcIdle /\ DedupeIdle /\ PrevIdle /\ RefIdle /\ GradeIdle /\ WhaleIdle /\ LimiterIdle /\ ConsIdle /\ ReqIdle /\ GrowIdle /\ YoyIdle
SpecRun == InitRun /\ [][RunNext]_vars

InitMonth == MonthInit /\ UpsertIdle /\ NewsIdle /\ TickerIdle /\ FetchIdle /\ AggIdle /\ MetricIdle /\ CalcIdle /\ RunIdle /\ ConcIdle /\ DedupeIdle /\ PrevIdle /\ RefIdle /\ GradeIdle /\ WhaleIdle /\ LimiterIdle /\ ConsIdle /\ ReqIdle /\ GrowIdle /\ YoyIdle
SpecMonth == InitMonth /\ [][MonthNext]_vars

InitConc == ConcInit /\ UpsertIdle /\ NewsIdle /\ TickerIdle /\ FetchIdle /\ AggIdle /\ MetricIdle /\ CalcIdle /\ RunIdle /\ MonthIdle /\ DedupeIdle /\ PrevIdle /\ RefIdle /\ GradeIdle /\ WhaleIdle /\ LimiterIdle /\ ConsIdle /\ ReqIdle /\ GrowIdle /\ YoyIdle
SpecConc == InitConc /\ [][ConcNext]_vars

InitDedupe == DedupeInit /\ UpsertIdle /\ NewsIdle /\ TickerIdle /\ FetchIdle /\ AggIdle /\ MetricIdle /\ CalcIdle /\ RunIdle /\ MonthIdle /\ ConcIdle /\ PrevIdle /\ RefIdle /\ GradeIdle /\ WhaleIdle /\ LimiterIdle /\ ConsIdle /\ ReqIdle /\ GrowIdle /\ YoyIdle
SpecDedupe == InitDedupe /\ [][DedupeNext]_vars

InitPrev == PrevInit /\ UpsertIdle /\ NewsIdle /\ TickerIdle /\ FetchIdle /\ AggIdle /\ MetricIdle /\ CalcIdle /\ RunIdle /\ MonthIdle /\ ConcIdle /\ DedupeIdle /\ RefIdle /\ GradeIdle /\ WhaleIdle /\ LimiterIdle /\ ConsIdle /\ ReqIdle /\ GrowIdle /\ YoyIdle
SpecPrev == InitPrev /\ [][PrevNext]_vars

InitRef == RefInit /\ UpsertIdle /\ NewsIdle /\ TickerIdle /\ FetchIdle /\ AggIdle /\ MetricIdle /\ CalcIdle /\ RunIdle /\ MonthIdle /\ ConcIdle /\ DedupeIdle /\ PrevIdle /\ GradeIdle /\ WhaleIdle /\ LimiterIdle /\ ConsIdle /\ ReqIdle /\ GrowIdle /\ YoyIdle
SpecRef == InitRef /\ [][RefNext]_vars

InitGrade == GradeInit /\ UpsertIdle /\ NewsIdle /\ TickerIdle /\ FetchIdle /\ AggIdle /\ MetricIdle /\ CalcIdle /\ RunIdle /\ MonthIdle /\ ConcIdle /\ DedupeIdle /\ PrevIdle /\ RefIdle /\ WhaleIdle /\ LimiterIdle /\ ConsIdle /\ ReqIdle /\ GrowIdle /\ YoyIdle
SpecGrade == InitGrade /\ [][GradeNext]_vars

InitWhale == WhaleInit /\ UpsertIdle /\ NewsIdle /\ TickerIdle /\ FetchIdle /\ AggIdle /\ MetricIdle /\ CalcIdle /\ RunIdle /\ MonthIdle /\ ConcIdle /\ DedupeIdle /\ PrevIdle /\ RefIdle /\ GradeIdle /\ LimiterIdle /\ ConsIdle /\ ReqIdle /\ GrowIdle /\ YoyIdle
SpecWhale == InitWhale /\ [][WhaleNext]_vars

InitLimiter == LimiterInit /\ UpsertIdle /\ NewsIdle /\ TickerIdle /\ FetchIdle /\ AggIdle /\ MetricIdle /\ CalcIdle /\ RunIdle /\ MonthIdle /\ ConcIdle /\ DedupeIdle /\ PrevIdle /\ RefIdle /\ GradeIdle /\ WhaleIdle /\ ConsIdle /\ ReqIdle /\ GrowIdle /\ YoyIdle
\* time.sleep returns and the clock goes on
SpecLimiter ==
    InitLimiter /\ [][LimiterNext]_vars /\ WF_vars(Tick) /\ WF_vars(RecordRequest)

InitCons == ConsInit /\ UpsertIdle /\ NewsIdle /\ TickerIdle /\ FetchIdle /\ AggIdle /\ MetricIdle /\ CalcIdle /\ RunIdle /\ MonthIdle /\ ConcIdle /\ DedupeIdle /\ PrevIdle /\ RefIdle /\ GradeIdle /\ WhaleIdle /\ LimiterIdle /\ ReqIdle /\ GrowIdle /\ YoyIdle
SpecCons == InitCons /\ [][ConsNext]_vars

InitReq == ReqInit /\ UpsertIdle /\ NewsIdle /\ TickerIdle /\ FetchIdle /\ AggIdle /\ MetricIdle /\ CalcIdle /\ RunIdle /\ MonthIdle /\ ConcIdle /\ DedupeIdle /\ PrevIdle /\ RefIdle /\ GradeIdle /\ WhaleIdle /\ LimiterIdle /\ ConsIdle /\ GrowIdle /\ YoyIdle
SpecReq == InitReq /\ [][ReqNext]_vars

InitGrow == GrowInit /\ UpsertIdle /\ NewsIdle /\ TickerIdle /\ FetchIdle /\ AggIdle /\ MetricIdle /\ CalcIdle /\ RunIdle /\ MonthIdle /\ ConcIdle /\ DedupeIdle /\ PrevIdle /\ RefIdle /\ GradeIdle /\ WhaleIdle /\ LimiterIdle /\ ConsIdle /\ ReqIdle /\ YoyIdle
SpecGrow == InitGrow /\ [][GrowNext]_vars

InitYoy == YoyInit /\ UpsertIdle /\ NewsIdle /\ TickerIdle /\ FetchIdle /\ AggIdle /\ MetricIdle /\ CalcIdle /\ RunIdle /\ MonthIdle /\ ConcIdle /\ DedupeIdle /\ PrevIdle /\ RefIdle /\ GradeIdle /\ WhaleIdle /\ LimiterIdle /\ ConsIdle /\ ReqIdle /\ GrowIdle
SpecYoy == InitYoy /\ [][YoyNext]_vars

====
